---- MODULE Spec2Model ----
(***************************************************************************)
(* A model of the AI resume reviewer backend.                              *)
(*                                                                         *)
(*   Spec        the role retriever (VectorStore) used by one thread:      *)
(*               construction (snapshot load), add_roles, save_index and   *)
(*               search_similar_roles, with I/O faults and process crashes *)
(*   SpecConc    the same VectorStore shared by several threads, one       *)
(*               source statement per step                                 *)
(*   SpecParser  the document parser's pure functions, applied to texts    *)
(*               drawn from a bounded set                                  *)
(*   SpecScorer  ATSScorer.calculate_score applied to resumes and job      *)
(*               descriptions drawn from a bounded set                     *)
(*   SpecGap     SkillGapAnalyzer.analyze applied to skill lists drawn     *)
(*               from a bounded set, with and without scikit-learn         *)
(*   SpecAnalyze the /api/analyze handler of main.py over a VectorStore    *)
(*               loaded from a snapshot, with and without an LLM           *)
(*   SpecRecommender  Recommender.generate_recommendations applied to      *)
(*               lists of missing skills drawn from a bounded set          *)
(*   SpecLLM     LLMAgent.analyze_resume and chat_with_mentor, with and    *)
(*               without an LLM, over the replies the LLM can give         *)
(*   SpecUpload  the /api/upload handler of main.py serving one request    *)
(*               after the other, one source statement per step            *)
(*   SpecUploadConc  the same handler run by several threads over the one  *)
(*               temp folder                                               *)
(***************************************************************************)
EXTENDS Integers, Sequences, FiniteSets, TLC

VARIABLES
    VECTOR_SEARCH_AVAILABLE, \* vector_store.py:8-13, fixed when the process imports the module
    model,                   \* self.model: "unset" | "None" | "loaded"
    index,                   \* self.index: NoIndex | Index(vectors)
    roles_metadata,          \* self.roles_metadata
    fsIndex,                 \* the file at index_path: Absent | Corrupt | File(index)
    fsMeta,                  \* the file at metadata_path: Absent | Corrupt | File(roles)
    alive,                   \* FALSE once the process has crashed, until the next start
    boot,                    \* how the running process started: "first" | "restart" | "recovery"
    lastOp,                  \* the call that ended last
    fault,                   \* the I/O fault the environment raised during that call
    outcome,                 \* "returned" | "raised" | "crashed"
    result,                  \* what the last search_similar_roles returned
    pc,                      \* SpecConc, SpecUpload, SpecUploadConc: each thread's position
    local,                   \* the same: each thread's local variables
    text,                    \* SpecParser: the input text, as its sequence of items
    stage,                   \* SpecParser: "input" | "segmented" | "extracted"
    header_indices,          \* segment_sections' sorted header_indices
    sections,                \* what segment_sections returned
    contact,                 \* what extract_contact_info returned
    nltk_available,          \* ats_score.py:159-164: whether nltk's stop words can be loaded
    hash_order,              \* the iteration order of this process's string sets
    resume_data,             \* calculate_score's resume_data: raw_text and sections
    job_description,         \* the target text, as its sequence of items
    ats_results,             \* what calculate_score returned
    SKLEARN_AVAILABLE,       \* skill_gap.py:4-10, fixed when the process imports the module
    resume_skills,           \* analyze's resume_skills
    required_skills,         \* analyze's required_skills
    similarity_calls,        \* how many times _calculate_similarities ran in the last request
    similarity_lists,        \* what each of these calls returned, in thousandths
    gap_results,             \* what analyze returned
    request,                 \* the JSON body of the request; in SpecLLM, the chat arguments
    retriever_calls,         \* how many times the handler has called search_similar_roles
    called,                  \* the service call that ended last, "input" before it
    response,                \* what the handler answered: status and body
    llm,                     \* llm_agent.py:21-35: self.llm, "None" | "ChatOpenAI"
    missing_skills,          \* generate_recommendations' missing_skills
    target_role,             \* the target role given to the recommender and the LLM agent
    rec_results,             \* what generate_recommendations returned
    job_requirements,        \* LLMAgent.analyze_resume's job_requirements, each element typed
    llm_reply,               \* what self.llm.invoke did in the last call of the agent
    llm_results,             \* what LLMAgent.analyze_resume returned
    temp_folder              \* main.py:33: the files of UPLOAD_FOLDER, name to content

storeVars == <<VECTOR_SEARCH_AVAILABLE, model, index, roles_metadata, fsIndex, fsMeta>>
seqVars == <<alive, boot, lastOp, fault, outcome, result>>
concVars == <<pc, local>>
parserVars == <<text, stage, header_indices, sections, contact>>
\* What no VectorStore step touches.
scorerVars == <<nltk_available, hash_order, resume_data, job_description, ats_results>>
gapVars ==
    <<SKLEARN_AVAILABLE, resume_skills, required_skills, similarity_calls, similarity_lists,
      gap_results>>
flowVars == <<request, retriever_calls, called, response>>
adviceVars ==
    <<llm, missing_skills, target_role, rec_results, job_requirements, llm_reply, llm_results>>
uploadVars == <<temp_folder>>
nonStoreVars == <<parserVars, scorerVars, gapVars, flowVars, adviceVars, uploadVars>>
vars == <<storeVars, seqVars, concVars, nonStoreVars>>

\* The parser's variables in the specifications that do not run it.
ParserOff ==
    /\ text = <<>>
    /\ stage = "off"
    /\ header_indices = <<>>
    /\ sections = <<>>
    /\ contact = <<>>

\* The scorer's variables in the specifications that do not run it.
ScorerOff ==
    /\ nltk_available = FALSE
    /\ hash_order = "ascending"
    /\ resume_data = <<>>
    /\ job_description = <<>>
    /\ ats_results = <<>>

\* The skill-gap analyzer's variables in the specifications that do not run it.
GapOff ==
    /\ SKLEARN_AVAILABLE = FALSE
    /\ resume_skills = <<>>
    /\ required_skills = <<>>
    /\ similarity_calls = 0
    /\ similarity_lists = <<>>
    /\ gap_results = <<>>

\* The request handler's variables in the specifications that do not run it.
FlowOff ==
    /\ request = <<>>
    /\ retriever_calls = 0
    /\ called = "off"
    /\ response = <<>>

\* The recommender's and the LLM agent's variables in the specifications that
\* do not run them.
AdviceOff ==
    /\ llm = "None"
    /\ missing_skills = <<>>
    /\ target_role = ""
    /\ rec_results = <<>>
    /\ job_requirements = <<>>
    /\ llm_reply = [kind |-> "none"]
    /\ llm_results = <<>>

\* The upload folder in the specifications without uploads.
UploadOff == temp_folder = <<>>

-----------------------------------------------------------------------------
(* Bounds *)

MaxRoles == 2      \* most vectors the index holds
MaxBatch == 2      \* most roles in one add_roles call
MaxK == 2          \* largest k of a search
NThreads == 2      \* threads sharing one VectorStore in SpecConc
MaxLines == 3      \* most lines of an input text in SpecParser

-----------------------------------------------------------------------------
(* Values *)

\* self.index is None, or a faiss index holding a sequence of vectors.
NoIndex == [none |-> TRUE]
Index(vectors) == [vectors |-> vectors]
ntotal(idx) == Len(idx.vectors)

\* A snapshot file: missing, unreadable, or holding what was written.
Absent == [state |-> "absent"]
Corrupt == [state |-> "corrupt"]
File(data) == [state |-> "valid", data |-> data]

DevOps ==
    [title |-> "DevOps Engineer", skills |-> <<"Docker", "Kubernetes", "AWS">>,
     description |-> "Infra as code."]
DataScientist ==
    [title |-> "Data Scientist", skills |-> <<"Python", "Statistics", "Jupyter">>,
     description |-> "Analyze data."]
RolePool == {DevOps, DataScientist}

Queries == {"Kubernetes and cloud infrastructure", "anything"}

Batches == UNION {[1..n -> RolePool] : n \in 0..MaxBatch}

RECURSIVE Join(_)
Join(words) ==
    IF words = <<>> THEN ""
    ELSE IF Len(words) = 1 THEN words[1]
    ELSE words[1] \o " " \o Join(Tail(words))

RoleText(r) == r.title \o " " \o r.description \o " " \o Join(r.skills)

\* The embedding engine is an external collaborator: any deterministic function of
\* the text into a fixed-length vector.  Here the vector has one coordinate.
Encode(s) == <<Len(s)>>

EncodeAll(roles) == [i \in 1..Len(roles) |-> Encode(RoleText(roles[i]))]

L2(u, v) == (u[1] - v[1]) * (u[1] - v[1])

IsPrefix(s, t) == Len(s) <= Len(t) /\ SubSeq(t, 1, Len(s)) = s

-----------------------------------------------------------------------------
(* VectorStore: snapshot load *)

CreateNewIndex(m, idx, meta) ==
    IF m = "loaded" THEN [index |-> Index(<<>>), roles_metadata |-> <<>>]
    ELSE [index |-> idx, roles_metadata |-> meta]

LoadIndex(fi, fm) ==
    IF fi # Absent /\ fm # Absent
    THEN IF fi = Corrupt \/ fm = Corrupt
         THEN CreateNewIndex("loaded", NoIndex, <<>>)
         ELSE [index |-> fi.data, roles_metadata |-> fm.data]
    ELSE CreateNewIndex("loaded", NoIndex, <<>>)

-----------------------------------------------------------------------------
(* VectorStore: save_index *)

\* The faults the environment can raise inside save_index, in source order:
\* os.makedirs fails; faiss.write_index fails before or after it has truncated the
\* index file; open(metadata_path, 'wb') fails; pickle.dump fails after the open
\* has truncated the metadata file.
SaveFaults == {"makedirs", "write_index_open", "write_index_partial", "open_meta", "dump_meta"}
AddFaults == {"encode", "index_add"}
Faults == {"none"} \cup AddFaults \cup SaveFaults

SaveIndexSkipsMetadata(idx, meta, fi, fm, f) ==
    IF idx = NoIndex THEN [fsIndex |-> fi, fsMeta |-> fm, raised |-> FALSE]
    ELSE IF f = "makedirs" THEN [fsIndex |-> fi, fsMeta |-> fm, raised |-> TRUE]
    ELSE [fsIndex |-> File(idx), fsMeta |-> fm, raised |-> FALSE]

SaveIndex(idx, meta, fi, fm, f) ==
    IF idx = NoIndex THEN [fsIndex |-> fi, fsMeta |-> fm, raised |-> FALSE]
    ELSE IF f = "makedirs" THEN [fsIndex |-> fi, fsMeta |-> fm, raised |-> TRUE]
    ELSE IF f = "write_index_open" THEN [fsIndex |-> fi, fsMeta |-> fm, raised |-> FALSE]
    ELSE IF f = "write_index_partial" THEN [fsIndex |-> Corrupt, fsMeta |-> fm, raised |-> FALSE]
    ELSE IF f = "open_meta" THEN [fsIndex |-> File(idx), fsMeta |-> fm, raised |-> FALSE]
    ELSE IF f = "dump_meta" THEN [fsIndex |-> File(idx), fsMeta |-> Corrupt, raised |-> FALSE]
    ELSE [fsIndex |-> File(idx), fsMeta |-> File(meta), raised |-> FALSE]

\* Where a process can die inside save_index, and what it leaves on disk.
CrashPoints == {"before_save", "in_write_index", "after_write_index", "in_dump_meta"}

SaveIndexCrash(idx, meta, fi, fm, point) ==
    IF idx = NoIndex \/ point = "before_save" THEN [fsIndex |-> fi, fsMeta |-> fm]
    ELSE IF point = "in_write_index" THEN [fsIndex |-> Corrupt, fsMeta |-> fm]
    ELSE IF point = "after_write_index" THEN [fsIndex |-> File(idx), fsMeta |-> fm]
    ELSE [fsIndex |-> File(idx), fsMeta |-> Corrupt]

-----------------------------------------------------------------------------
(* VectorStore: search_similar_roles *)

NoLabel == -1

SearchGuardIgnoresMissingIndex(avail, idx) == ~avail \/ (idx # NoIndex /\ ntotal(idx) = 0)

SearchGuard(avail, idx) == ~avail \/ idx = NoIndex \/ ntotal(idx) = 0

\* faiss IndexFlatL2.search: the k nearest positions by L2 distance, nearest first
\* (ties by position), padded with -1 when the index holds fewer than k vectors.
Rank(idx, qv, i) ==
    Cardinality({j \in 1..Len(idx) :
        \/ L2(idx[j], qv) < L2(idx[i], qv)
        \/ (L2(idx[j], qv) = L2(idx[i], qv) /\ j < i)})

Labels(idx, qv, k) ==
    [r \in 1..k |-> IF r <= Len(idx)
                    THEN CHOOSE i \in 1..Len(idx) : Rank(idx, qv, i) = r - 1
                    ELSE NoLabel]

Distances(idx, qv, labels) ==
    [r \in 1..Len(labels) |-> IF labels[r] = NoLabel THEN 0 ELSE L2(idx[labels[r]], qv)]

\* Positions are 1-based here and 0-based in the source: idx < len(roles_metadata)
\* there is label <= Len(meta) here.
Hit(meta, label) == label # NoLabel /\ label <= Len(meta)

Scored(role, d) == ("similarity_score" :> d) @@ role

RECURSIVE CollectScoresStoredRole(_, _, _)
CollectScoresStoredRole(meta, labels, dists) ==
    IF labels = <<>> THEN [results |-> <<>>, roles_metadata |-> meta]
    ELSE LET hit == Hit(meta, labels[1])
             here == IF hit THEN [meta EXCEPT ![labels[1]] = Scored(@, dists[1])] ELSE meta
             rest == CollectScoresStoredRole(here, Tail(labels), Tail(dists))
         IN  [results |-> (IF hit THEN <<here[labels[1]]>> ELSE <<>>) \o rest.results,
              roles_metadata |-> rest.roles_metadata]

RECURSIVE Collect(_, _, _)
Collect(meta, labels, dists) ==
    IF labels = <<>> THEN [results |-> <<>>, roles_metadata |-> meta]
    ELSE LET hit == Hit(meta, labels[1])
             rest == Collect(meta, Tail(labels), Tail(dists))
         IN  [results |-> (IF hit THEN <<Scored(meta[labels[1]], dists[1])>> ELSE <<>>)
                              \o rest.results,
              roles_metadata |-> rest.roles_metadata]

-----------------------------------------------------------------------------
(* The VectorStore used by one thread *)

\* __init__ in a new process on the same index path.  modelOk: SentenceTransformer
\* loaded without raising.
Construct(avail, modelOk) ==
    LET loaded == LoadIndex(fsIndex, fsMeta) IN
    /\ VECTOR_SEARCH_AVAILABLE' = avail
    /\ model' = IF ~avail THEN "unset" ELSE IF modelOk THEN "loaded" ELSE "None"
    /\ index' = IF avail /\ modelOk THEN loaded.index ELSE NoIndex
    /\ roles_metadata' = IF avail /\ modelOk THEN loaded.roles_metadata ELSE <<>>
    /\ alive' = TRUE
    /\ boot' = IF alive THEN "restart" ELSE "recovery"
    /\ lastOp' = "construct"
    /\ fault' = "none"
    /\ outcome' = "returned"
    /\ result' = <<>>
    /\ UNCHANGED <<fsIndex, fsMeta, concVars, nonStoreVars>>

CanAdd(roles) ==
    /\ (IF index = NoIndex THEN 0 ELSE ntotal(index)) + Len(roles) <= MaxRoles
    /\ Len(roles_metadata) + Len(roles) <= MaxRoles

\* The in-memory part of add_roles, lines 72-79.
Appended(roles) ==
    LET base == IF index = NoIndex
                THEN CreateNewIndex(model, index, roles_metadata)
                ELSE [index |-> index, roles_metadata |-> roles_metadata]
    IN  [index |-> Index(base.index.vectors \o EncodeAll(roles)),
         roles_metadata |-> base.roles_metadata \o roles]

AddRoles(roles, f) ==
    /\ alive
    /\ CanAdd(roles)
    /\ lastOp' = "add_roles"
    /\ fault' = f
    /\ result' = <<>>
    /\ UNCHANGED <<VECTOR_SEARCH_AVAILABLE, model, alive, boot, concVars, nonStoreVars>>
    /\ IF ~VECTOR_SEARCH_AVAILABLE \/ model # "loaded"
       THEN /\ f = "none"
            /\ outcome' = "returned"
            /\ UNCHANGED <<index, roles_metadata, fsIndex, fsMeta>>
       ELSE IF f \in AddFaults
       THEN /\ outcome' = "raised"
            /\ UNCHANGED <<index, roles_metadata, fsIndex, fsMeta>>
       ELSE LET mem == Appended(roles)
                disk == SaveIndex(mem.index, mem.roles_metadata, fsIndex, fsMeta, f)
            IN  /\ index' = mem.index
                /\ roles_metadata' = mem.roles_metadata
                /\ fsIndex' = disk.fsIndex
                /\ fsMeta' = disk.fsMeta
                /\ outcome' = IF disk.raised THEN "raised" ELSE "returned"

\* The process dies inside add_roles, after the in-memory append.
AddRolesCrash(roles, point) ==
    /\ alive
    /\ CanAdd(roles)
    /\ VECTOR_SEARCH_AVAILABLE /\ model = "loaded"
    /\ LET mem == Appended(roles)
           disk == SaveIndexCrash(mem.index, mem.roles_metadata, fsIndex, fsMeta, point)
       IN  /\ fsIndex' = disk.fsIndex
           /\ fsMeta' = disk.fsMeta
    /\ alive' = FALSE
    /\ index' = NoIndex
    /\ roles_metadata' = <<>>
    /\ lastOp' = "add_roles"
    /\ fault' = point
    /\ outcome' = "crashed"
    /\ result' = <<>>
    /\ UNCHANGED <<VECTOR_SEARCH_AVAILABLE, model, boot, concVars, nonStoreVars>>

\* save_index called on its own.
SaveIndexCall(f) ==
    /\ alive
    /\ f \in {"none"} \cup SaveFaults
    /\ index = NoIndex => f = "none"
    /\ LET disk == SaveIndex(index, roles_metadata, fsIndex, fsMeta, f)
       IN  /\ fsIndex' = disk.fsIndex
           /\ fsMeta' = disk.fsMeta
           /\ outcome' = IF disk.raised THEN "raised" ELSE "returned"
    /\ lastOp' = "save_index"
    /\ fault' = f
    /\ result' = <<>>
    /\ UNCHANGED <<VECTOR_SEARCH_AVAILABLE, model, index, roles_metadata, alive, boot, concVars, nonStoreVars>>

\* search_similar_roles(query, k).  kAsserts: the faiss build refuses k <= 0 with
\* an exception instead of returning rows of length 0.
Search(query, k, kAsserts) ==
    /\ alive
    /\ lastOp' = "search"
    /\ fault' = "none"
    /\ UNCHANGED <<VECTOR_SEARCH_AVAILABLE, model, index, fsIndex, fsMeta, alive, boot, concVars, nonStoreVars>>
    /\ IF SearchGuard(VECTOR_SEARCH_AVAILABLE, index)
       THEN /\ ~kAsserts
            /\ outcome' = "returned"
            /\ result' = <<>>
            /\ UNCHANGED roles_metadata
       ELSE IF model # "loaded" \/ index = NoIndex \/ (k <= 0 /\ kAsserts)
       THEN /\ (k > 0 => ~kAsserts)
            /\ outcome' = "raised"
            /\ result' = <<>>
            /\ UNCHANGED roles_metadata
       ELSE LET labels == Labels(index.vectors, Encode(query), k)
                got == Collect(roles_metadata, labels,
                               Distances(index.vectors, Encode(query), labels))
            IN  /\ ~kAsserts
                /\ outcome' = "returned"
                /\ result' = got.results
                /\ roles_metadata' = got.roles_metadata

Init ==
    /\ fsIndex = Absent
    /\ fsMeta = Absent
    /\ VECTOR_SEARCH_AVAILABLE \in BOOLEAN
    /\ model \in {"unset", "None", "loaded"}
    /\ VECTOR_SEARCH_AVAILABLE = (model # "unset")
    /\ index = IF model = "loaded" THEN Index(<<>>) ELSE NoIndex
    /\ roles_metadata = <<>>
    /\ alive = TRUE
    /\ boot = "first"
    /\ lastOp = "construct"
    /\ fault = "none"
    /\ outcome = "returned"
    /\ result = <<>>
    /\ pc = <<>>
    /\ local = <<>>
    /\ ParserOff
    /\ ScorerOff
    /\ GapOff
    /\ FlowOff
    /\ AdviceOff
    /\ UploadOff

Next ==
    \/ \E avail \in BOOLEAN, modelOk \in BOOLEAN : Construct(avail, modelOk)
    \/ \E roles \in Batches, f \in Faults : AddRoles(roles, f)
    \/ \E roles \in Batches, point \in CrashPoints : AddRolesCrash(roles, point)
    \/ \E f \in Faults : SaveIndexCall(f)
    \/ \E query \in Queries, k \in 0..MaxK, kAsserts \in BOOLEAN : Search(query, k, kAsserts)

Spec == Init /\ [][Next]_vars

-----------------------------------------------------------------------------
(* The VectorStore shared by threads: one step per source statement.  The     *)
(* source takes no lock, so the steps of different threads interleave freely. *)

Threads == 1..NThreads

Blank ==
    [roles |-> <<>>, embeddings |-> <<>>, query |-> "", k |-> 0, labels |-> <<>>,
     dists |-> <<>>, i |-> 0, results |-> <<>>, seenTotal |-> 0, seenMeta |-> 0]

\* Roles that calls in flight have still to append to the index, to the metadata.
RECURSIVE PendingSum(_, _)
PendingSum(ts, at) ==
    IF ts = {} THEN 0
    ELSE LET t == CHOOSE x \in ts : TRUE
         IN  (IF pc[t] \in at THEN Len(local[t].roles) ELSE 0) + PendingSum(ts \ {t}, at)

CanBeginAdd(roles) ==
    /\ (IF index = NoIndex THEN 0 ELSE ntotal(index))
           + PendingSum(Threads, {"add_index"}) + Len(roles) <= MaxRoles
    /\ Len(roles_metadata) + PendingSum(Threads, {"add_index", "add_meta"})
           + Len(roles) <= MaxRoles

\* add_roles, lines 68-73: the availability check, the texts and their embeddings.
AddRolesBegin(t, roles) ==
    /\ pc[t] = "idle"
    /\ CanBeginAdd(roles)
    /\ IF ~VECTOR_SEARCH_AVAILABLE \/ model # "loaded"
       THEN UNCHANGED <<pc, local>>
       ELSE /\ pc' = [pc EXCEPT ![t] = "add_index"]
            /\ local' = [local EXCEPT ![t] =
                   [Blank EXCEPT !.roles = roles, !.embeddings = EncodeAll(roles)]]
    /\ UNCHANGED <<storeVars, seqVars, nonStoreVars>>

\* add_roles, lines 75-78: self.index.add(embeddings).
AddIndex(t) ==
    /\ pc[t] = "add_index"
    /\ LET base == IF index = NoIndex
                   THEN CreateNewIndex(model, index, roles_metadata)
                   ELSE [index |-> index, roles_metadata |-> roles_metadata]
       IN  /\ index' = Index(base.index.vectors \o local[t].embeddings)
           /\ roles_metadata' = base.roles_metadata
    /\ pc' = [pc EXCEPT ![t] = "add_meta"]
    /\ UNCHANGED <<VECTOR_SEARCH_AVAILABLE, model, fsIndex, fsMeta, seqVars, local, nonStoreVars>>

\* add_roles, line 79: self.roles_metadata.extend(roles).
AddMeta(t) ==
    /\ pc[t] = "add_meta"
    /\ roles_metadata' = roles_metadata \o local[t].roles
    /\ pc' = [pc EXCEPT ![t] = "save_index"]
    /\ UNCHANGED <<VECTOR_SEARCH_AVAILABLE, model, index, fsIndex, fsMeta, seqVars, local, nonStoreVars>>

\* save_index, lines 109-115: faiss.write_index(self.index, self.index_path).
SaveWriteIndex(t) ==
    /\ pc[t] = "save_index"
    /\ IF index = NoIndex
       THEN /\ pc' = [pc EXCEPT ![t] = "idle"]
            /\ UNCHANGED fsIndex
       ELSE /\ pc' = [pc EXCEPT ![t] = "save_meta"]
            /\ fsIndex' = File(index)
    /\ UNCHANGED <<VECTOR_SEARCH_AVAILABLE, model, index, roles_metadata, fsMeta, seqVars, local, nonStoreVars>>

\* save_index, lines 116-117: pickle.dump(self.roles_metadata, f).
SaveWriteMeta(t) ==
    /\ pc[t] = "save_meta"
    /\ fsMeta' = File(roles_metadata)
    /\ pc' = [pc EXCEPT ![t] = "idle"]
    /\ local' = [local EXCEPT ![t] = Blank]
    /\ UNCHANGED <<VECTOR_SEARCH_AVAILABLE, model, index, roles_metadata, fsIndex, seqVars, nonStoreVars>>

\* search_similar_roles, lines 89-91: the guard.
SearchBegin(t, query, k) ==
    /\ pc[t] = "idle"
    /\ IF SearchGuard(VECTOR_SEARCH_AVAILABLE, index)
       THEN /\ local' = [local EXCEPT ![t] = [Blank EXCEPT !.query = query, !.k = k]]
            /\ UNCHANGED pc
       ELSE /\ pc' = [pc EXCEPT ![t] = "search_index"]
            /\ local' = [local EXCEPT ![t] = [Blank EXCEPT !.query = query, !.k = k]]
    /\ UNCHANGED <<storeVars, seqVars, nonStoreVars>>

\* search_similar_roles, lines 93-94: self.index.search(query_vector, k).
SearchIndex(t) ==
    /\ pc[t] = "search_index"
    /\ LET labels == Labels(index.vectors, Encode(local[t].query), local[t].k)
       IN  local' = [local EXCEPT ![t].labels = labels,
                                  ![t].dists = Distances(index.vectors, Encode(local[t].query), labels),
                                  ![t].i = 1,
                                  ![t].seenTotal = ntotal(index)]
    /\ pc' = [pc EXCEPT ![t] = "collect"]
    /\ UNCHANGED <<storeVars, seqVars, nonStoreVars>>

\* search_similar_roles, lines 97-103: one iteration of the loop over the labels;
\* line 105 once the labels are used up.
CollectStep(t) ==
    /\ pc[t] = "collect"
    /\ IF local[t].i > Len(local[t].labels)
       THEN /\ pc' = [pc EXCEPT ![t] = "idle"]
            /\ UNCHANGED <<local, roles_metadata>>
       ELSE LET i == local[t].i
                got == Collect(roles_metadata, <<local[t].labels[i]>>, <<local[t].dists[i]>>)
            IN  /\ local' = [local EXCEPT ![t].results = @ \o got.results,
                                          ![t].i = i + 1,
                                          ![t].seenMeta = Len(roles_metadata)]
                /\ roles_metadata' = got.roles_metadata
                /\ UNCHANGED pc
    /\ UNCHANGED <<VECTOR_SEARCH_AVAILABLE, model, index, fsIndex, fsMeta, seqVars, nonStoreVars>>

InitConc ==
    /\ fsIndex = Absent
    /\ fsMeta = Absent
    /\ VECTOR_SEARCH_AVAILABLE = TRUE
    /\ model = "loaded"
    /\ index = Index(<<>>)
    /\ roles_metadata = <<>>
    /\ alive = TRUE
    /\ boot = "first"
    /\ lastOp = "construct"
    /\ fault = "none"
    /\ outcome = "returned"
    /\ result = <<>>
    /\ pc = [t \in Threads |-> "idle"]
    /\ local = [t \in Threads |-> Blank]
    /\ ParserOff
    /\ ScorerOff
    /\ GapOff
    /\ FlowOff
    /\ AdviceOff
    /\ UploadOff

NextConc ==
    \E t \in Threads :
        \/ \E roles \in Batches : AddRolesBegin(t, roles)
        \/ AddIndex(t)
        \/ AddMeta(t)
        \/ SaveWriteIndex(t)
        \/ SaveWriteMeta(t)
        \/ \E query \in Queries, k \in 1..MaxK : SearchBegin(t, query, k)
        \/ SearchIndex(t)
        \/ CollectStep(t)

SpecConc == InitConc /\ [][NextConc]_vars

-----------------------------------------------------------------------------
(* Claims about the role retriever *)

Count(idx) == IF idx = NoIndex THEN 0 ELSE ntotal(idx)

\* Position i of the index and of the metadata list refer to the same role.
LockStep(idx, meta) ==
    /\ Count(idx) = Len(meta)
    /\ \A i \in 1..Len(meta) : idx.vectors[i] = Encode(RoleText(meta[i]))

\* C1: after any single-threaded sequence of constructions, add_roles calls (failed
\* ones included) and searches, the index and roles_metadata are in lock-step: same
\* length, and position i of both is the same role.
C1_LockStepAlways == alive => LockStep(index, roles_metadata)

AllIdle == \A t \in Threads : pc[t] = "idle"

\* C2: add_roles' critical section excludes other writers and readers, so no search
\* observes an index and a metadata list of different lengths, and concurrent
\* add_roles calls leave the metadata in the order of the vectors.
C2_NoTornObservation ==
    /\ \A t \in Threads :
           (pc[t] = "collect" /\ local[t].i > 1) => local[t].seenTotal = local[t].seenMeta
    /\ AllIdle => LockStep(index, roles_metadata)

\* C3: a crash at any point of add_roles or save_index is tolerated by the next
\* start: the store it loads is empty or an index and a metadata list in lock-step,
\* never an index file and a metadata file of different lengths.
C3_CrashTolerated ==
    (lastOp = "construct" /\ boot = "recovery") => LockStep(index, roles_metadata)

AddReturned ==
    lastOp = "add_roles" /\ fault = "none" /\ outcome = "returned" /\ model = "loaded"

SnapshotReadable == fsIndex.state = "valid" /\ fsMeta.state = "valid"

\* C4: once add_roles has returned on a store with working persistence, a store
\* constructed on the same path holds the same roles in the same order and the
\* same vectors; with no readable snapshot a store starts from an empty index.
C4_SnapshotSurvivesRestart ==
    /\ AddReturned =>
           /\ SnapshotReadable
           /\ LoadIndex(fsIndex, fsMeta) = [index |-> index, roles_metadata |-> roles_metadata]
    /\ (lastOp = "construct" /\ model = "loaded" /\ SnapshotReadable) =>
           (index = fsIndex.data /\ roles_metadata = fsMeta.data)
    /\ (lastOp = "construct" /\ model = "loaded" /\ ~SnapshotReadable) =>
           (index = Index(<<>>) /\ roles_metadata = <<>>)

C4_Witness ==
    /\ lastOp = "construct"
    /\ boot = "restart"
    /\ model = "loaded"
    /\ roles_metadata = <<DevOps, DataScientist>>
    /\ index # NoIndex
    /\ ntotal(index) = 2

\* C5: a search on a store with no indexed role returns the empty sequence and
\* raises nothing, whatever the query and k; a store without an embedding engine
\* stays empty.
C5_EmptyStoreSearch ==
    /\ (lastOp = "search" /\ Count(index) = 0) => (outcome = "returned" /\ result = <<>>)
    /\ (alive /\ model # "loaded") => (index = NoIndex /\ roles_metadata = <<>>)

C5_Witness ==
    /\ lastOp = "search"
    /\ outcome = "returned"
    /\ model = "None"
    /\ index = NoIndex
    /\ fsMeta.state = "valid"

\* C6: no snapshot load or save failure reaches the caller: the constructor,
\* add_roles and save_index return normally whatever fault the snapshot I/O raises.
C6_PersistenceFailureNotPropagated ==
    (lastOp \in {"construct", "add_roles", "save_index"} /\ fault \in SaveFaults)
        => outcome = "returned"

\* C7: role records are append-only: across an add_roles call the vectors and the
\* metadata held before are a prefix of those held after, and a search changes
\* neither the index nor any stored record.
C7_AppendOnly ==
    [][/\ (alive /\ alive' /\ lastOp' = "add_roles") =>
              /\ IsPrefix(roles_metadata, roles_metadata')
              /\ index # NoIndex => (index' # NoIndex /\ IsPrefix(index.vectors, index'.vectors))
       /\ lastOp' = "search" => (index' = index /\ roles_metadata' = roles_metadata)]_vars

C7_Witness ==
    /\ lastOp = "search"
    /\ Len(result) = 2
    /\ Len(roles_metadata) = 2
    /\ \A i \in 1..2 : /\ "similarity_score" \in DOMAIN result[i]
                       /\ "similarity_score" \notin DOMAIN roles_metadata[i]

-----------------------------------------------------------------------------
(* The document parser (ResumeParser).                                        *)
(*                                                                            *)
(* A text is held as its sequence of items: atoms (maximal pieces that no     *)
(* pattern of the parser matches across or only partly into), single spaces   *)
(* between the atoms of a line, and "\n" between lines.  The text itself is   *)
(* the concatenation of its items, and every offset the parser computes (a    *)
(* match start, a line start, a line end) falls on an item boundary.          *)

SP == " "
NL == "\n"

\* Lines of input: section headers, header words inside a sentence of exactly 49
\* and exactly 50 characters, plain content, contact details.
LinePool ==
    { <<>>,
      <<"EDUCATION">>,
      <<"Education">>,
      <<"WORK", "EXPERIENCE">>,
      <<"SKILLS">>,
      <<"BSc", "Physics">>,
      <<"Continuing", "EDUCATION", "and vocational training once">>,
      <<"Continuing", "EDUCATION", "and vocational training twice">>,
      <<"john.doe@example.com">>,
      <<"jane@x.io", "x.io">>,
      <<"(123) 456-7890">>,
      <<"linkedin.com/in/johndoe", "555-1234">> }

RECURSIVE LineItems(_)
LineItems(line) ==
    IF line = <<>> THEN <<>>
    ELSE IF Len(line) = 1 THEN <<line[1]>>
    ELSE <<line[1], SP>> \o LineItems(Tail(line))

RECURSIVE TextItems(_)
TextItems(lines) ==
    IF lines = <<>> THEN <<>>
    ELSE IF Len(lines) = 1 THEN LineItems(lines[1])
    ELSE LineItems(lines[1]) \o <<NL>> \o TextItems(Tail(lines))

Texts == {TextItems(lines) : lines \in UNION {[1..n -> LinePool] : n \in 0..MaxLines}}

\* The string an item sequence stands for.
RECURSIVE Render(_)
Render(items) == IF items = <<>> THEN "" ELSE items[1] \o Render(Tail(items))

RECURSIVE CharLen(_)
CharLen(items) == IF items = <<>> THEN 0 ELSE Len(items[1]) + CharLen(Tail(items))

\* The character offset at which item p starts (0-based, as in the source).
Offset(items, p) == CharLen(SubSeq(items, 1, p - 1))

\* The item that starts at character offset off; Len(items) + 1 for len(text).
ItemAt(items, off) == CHOOSE p \in 1..(Len(items) + 1) : Offset(items, p) = off

IsSpace(item) == item \in {SP, NL}

\* str.strip()
RECURSIVE LStrip(_)
LStrip(items) ==
    IF items # <<>> /\ IsSpace(items[1]) THEN LStrip(Tail(items)) ELSE items

RECURSIVE RStrip(_)
RStrip(items) ==
    IF items # <<>> /\ IsSpace(items[Len(items)])
    THEN RStrip(SubSeq(items, 1, Len(items) - 1))
    ELSE items

Strip(items) == RStrip(LStrip(items))

\* self.sections_patterns, in the order of the dict and of each list.  A pattern
\* \bW1 W2\b is the sequence of its words.
SectionOrder == <<"education", "experience", "skills", "projects", "certifications">>

sections_patterns ==
    [education |->
        << <<"EDUCATION">>, <<"ACADEMIC", "BACKGROUND">>, <<"QUALIFICATIONS">>,
           <<"Education">>, <<"Academic", "Background">> >>,
     experience |->
        << <<"EXPERIENCE">>, <<"WORK", "EXPERIENCE">>, <<"PROFESSIONAL", "EXPERIENCE">>,
           <<"EMPLOYMENT", "HISTORY">>, <<"Experience">>, <<"Work", "Experience">> >>,
     skills |->
        << <<"SKILLS">>, <<"TECHNICAL", "SKILLS">>, <<"CORE", "COMPETENCIES">>,
           <<"TECHNOLOGIES">>, <<"Skills">>, <<"Technical", "Skills">> >>,
     projects |->
        << <<"PROJECTS">>, <<"ACADEMIC", "PROJECTS">>, <<"PERSONAL", "PROJECTS">>,
           <<"Projects">>, <<"Key", "Projects">> >>,
     certifications |->
        << <<"CERTIFICATIONS">>, <<"CERTIFICATES">>, <<"COURSES">>,
           <<"Certifications">>, <<"Certificates">> >>]

\* re.finditer(pattern, text): the items at which the pattern's words, joined by
\* single spaces, start; in text order.
MatchesAt(items, pattern, p) ==
    LET want == LineItems(pattern)
    IN  /\ p + Len(want) - 1 <= Len(items)
        /\ SubSeq(items, p, p + Len(want) - 1) = want

RECURSIVE MatchesFrom(_, _, _)
MatchesFrom(items, pattern, p) ==
    IF p > Len(items) THEN <<>>
    ELSE IF MatchesAt(items, pattern, p)
    THEN <<p>> \o MatchesFrom(items, pattern, p + Len(LineItems(pattern)))
    ELSE MatchesFrom(items, pattern, p + 1)

Matches(items, pattern) == MatchesFrom(items, pattern, 1)

\* text.rfind('\n', 0, start) + 1, as an item position.
RECURSIVE LineStart(_, _)
LineStart(items, p) ==
    IF p = 1 THEN 1
    ELSE IF items[p - 1] = NL THEN p
    ELSE LineStart(items, p - 1)

\* text.find('\n', end), len(text) when there is none, as an item position.
RECURSIVE LineEnd(_, _)
LineEnd(items, q) ==
    IF q > Len(items) THEN Len(items) + 1
    ELSE IF items[q] = NL THEN q
    ELSE LineEnd(items, q + 1)

HeaderLineLimit == 50

\* The stripped line holding the match that starts at item p.
MatchLine(items, pattern, p) ==
    Strip(SubSeq(items, LineStart(items, p),
                 LineEnd(items, p + Len(LineItems(pattern))) - 1))

AcceptedUpToLimit(items, pattern, p) ==
    CharLen(MatchLine(items, pattern, p)) <= HeaderLineLimit

Accepted(items, pattern, p) == CharLen(MatchLine(items, pattern, p)) < HeaderLineLimit

\* The loop over one pattern's matches, lines 117-130: the first match on a short
\* line is appended and the loop over the matches is left.
RECURSIVE FirstAccepted(_, _, _, _)
FirstAccepted(items, pattern, ms, section_name) ==
    IF ms = <<>> THEN <<>>
    ELSE IF Accepted(items, pattern, ms[1])
    THEN << <<Offset(items, ms[1]), section_name>> >>
    ELSE FirstAccepted(items, pattern, Tail(ms), section_name)

\* The loop over one section's patterns, lines 113-130.
RECURSIVE PatternsLoop(_, _, _)
PatternsLoop(items, patterns, section_name) ==
    IF patterns = <<>> THEN <<>>
    ELSE FirstAccepted(items, patterns[1], Matches(items, patterns[1]), section_name)
             \o PatternsLoop(items, Tail(patterns), section_name)

\* The loop over the sections, lines 112-130.
RECURSIVE SectionsLoop(_, _)
SectionsLoop(items, names) ==
    IF names = <<>> THEN <<>>
    ELSE PatternsLoop(items, sections_patterns[names[1]], names[1])
             \o SectionsLoop(items, Tail(names))

\* list.sort() on (start, section_name) tuples: by start, then by name.
NameRank(name) ==
    CASE name = "certifications" -> 1
      [] name = "education" -> 2
      [] name = "experience" -> 3
      [] name = "projects" -> 4
      [] name = "skills" -> 5

TupleLess(a, b) == a[1] < b[1] \/ (a[1] = b[1] /\ NameRank(a[2]) < NameRank(b[2]))

RECURSIVE Insert(_, _)
Insert(sorted, x) ==
    IF sorted = <<>> THEN <<x>>
    ELSE IF TupleLess(x, sorted[1]) THEN <<x>> \o sorted
    ELSE <<sorted[1]>> \o Insert(Tail(sorted), x)

RECURSIVE Sort(_)
Sort(h) == IF h = <<>> THEN <<>> ELSE Insert(Sort(Tail(h)), h[1])

HeaderIndices(items) == Sort(SectionsLoop(items, SectionOrder))

EmptySections ==
    [education |-> "", experience |-> "", skills |-> "", projects |-> "",
     certifications |-> "", others |-> ""]

RECURSIVE FirstNewline(_, _)
FirstNewline(items, p) ==
    IF p > Len(items) THEN 0
    ELSE IF items[p] = NL THEN p
    ELSE FirstNewline(items, p + 1)

\* Lines 141-148: the slice from this header to the next, stripped, without its
\* first line when it has more than one.
SectionContent(items, start_idx, end_idx) ==
    LET content == Strip(SubSeq(items, ItemAt(items, start_idx), ItemAt(items, end_idx) - 1))
        first_newline == FirstNewline(content, 1)
    IN  IF first_newline # 0
        THEN Render(Strip(SubSeq(content, first_newline, Len(content))))
        ELSE Render(content)

\* The loop at lines 140-150 from entry i on.
RECURSIVE SliceLoop(_, _, _, _)
SliceLoop(items, h, i, acc) ==
    IF i > Len(h) THEN acc
    ELSE LET end_idx == IF i + 1 <= Len(h) THEN h[i + 1][1] ELSE CharLen(items)
         IN  SliceLoop(items, h, i + 1,
                       [acc EXCEPT ![h[i][2]] = SectionContent(items, h[i][1], end_idx)])

SegmentSectionsWithoutFallback(items) ==
    SliceLoop(items, HeaderIndices(items), 1, EmptySections)

SegmentSectionsKeepingPreamble(items) ==
    LET h == HeaderIndices(items)
    IN  IF h = <<>> THEN [EmptySections EXCEPT !.others = Render(items)]
        ELSE [SliceLoop(items, h, 1, EmptySections) EXCEPT
                  !.others = Render(Strip(SubSeq(items, 1, ItemAt(items, h[1][1]) - 1)))]

SegmentSections(items) ==
    LET h == HeaderIndices(items)
    IN  IF h = <<>> THEN [EmptySections EXCEPT !.others = Render(items)]
        ELSE SliceLoop(items, h, 1, EmptySections)

-----------------------------------------------------------------------------
(* ResumeParser.extract_contact_info *)

\* re.findall of each contact pattern inside one item.  None of the three patterns
\* matches across the items of the texts above, so the matches in a text are the
\* matches in its items, in order.
EmailMatches(item) ==
    CASE item = "john.doe@example.com" -> <<"john.doe@example.com">>
      [] item = "jane@x.io" -> <<"jane@x.io">>
      [] OTHER -> <<>>

PhoneMatches(item) ==
    CASE item = "(123) 456-7890" -> <<"(123) 456-7890">>
      [] item = "555-1234" -> <<"555-1234">>
      [] OTHER -> <<>>

\* The URL pattern takes the whole of john.doe@example.com (john.doe is a
\* name.tld head, and [^\s]* runs over the rest), but only x.io of jane@x.io.
UrlMatches(item) ==
    CASE item = "john.doe@example.com" -> <<"john.doe@example.com">>
      [] item = "jane@x.io" -> <<"x.io">>
      [] item = "x.io" -> <<"x.io">>
      [] item = "linkedin.com/in/johndoe" -> <<"linkedin.com/in/johndoe">>
      [] OTHER -> <<>>

ItemMatches(pattern, item) ==
    CASE pattern = "email_pattern" -> EmailMatches(item)
      [] pattern = "phone_pattern" -> PhoneMatches(item)
      [] pattern = "url_pattern" -> UrlMatches(item)

\* re.findall(pattern, text)
RECURSIVE FindAll(_, _)
FindAll(pattern, items) ==
    IF items = <<>> THEN <<>>
    ELSE ItemMatches(pattern, items[1]) \o FindAll(pattern, Tail(items))

\* An optional value: None, or the value.
None == <<>>
Some(x) == <<x>>

\* re.search: the first match, or None.
SearchFirst(pattern, items) ==
    LET all == FindAll(pattern, items) IN IF all = <<>> THEN None ELSE Some(all[1])

NotEmail(email_str, link) == link # email_str[1]

KeepAllLinks(links, email_str) == links

\* Lines 87-88: the email is filtered out of the links.
FilterLinks(links, email_str) ==
    IF email_str # None
    THEN SelectSeq(links, LAMBDA link : NotEmail(email_str, link))
    ELSE links

ExtractContactInfo(items) ==
    LET email_str == SearchFirst("email_pattern", items)
        phone == SearchFirst("phone_pattern", items)
        links == FindAll("url_pattern", items)
    IN  [email |-> email_str, phone |-> phone, links |-> FilterLinks(links, email_str)]

-----------------------------------------------------------------------------
(* The parser's functions applied to one text *)

SegmentSectionsCall ==
    /\ stage = "input"
    /\ stage' = "segmented"
    /\ header_indices' = HeaderIndices(text)
    /\ sections' = SegmentSections(text)
    /\ UNCHANGED <<text, contact, storeVars, seqVars, concVars, scorerVars, gapVars, flowVars,
                   adviceVars, uploadVars>>

ExtractContactInfoCall ==
    /\ stage = "input"
    /\ stage' = "extracted"
    /\ contact' = ExtractContactInfo(text)
    /\ UNCHANGED <<text, header_indices, sections, storeVars, seqVars, concVars,
                   scorerVars, gapVars, flowVars, adviceVars, uploadVars>>

\* The VectorStore's variables in the specifications that do not run it.
StoreOff ==
    /\ VECTOR_SEARCH_AVAILABLE = FALSE
    /\ model = "unset"
    /\ index = NoIndex
    /\ roles_metadata = <<>>
    /\ fsIndex = Absent
    /\ fsMeta = Absent
    /\ alive = TRUE
    /\ boot = "first"
    /\ lastOp = "construct"
    /\ fault = "none"
    /\ outcome = "returned"
    /\ result = <<>>
    /\ pc = <<>>
    /\ local = <<>>

InitParser ==
    /\ text \in Texts
    /\ stage = "input"
    /\ header_indices = <<>>
    /\ sections = <<>>
    /\ contact = <<>>
    /\ StoreOff
    /\ ScorerOff
    /\ GapOff
    /\ FlowOff
    /\ AdviceOff
    /\ UploadOff

NextParser ==
    \/ SegmentSectionsCall
    \/ ExtractContactInfoCall

SpecParser == InitParser /\ [][NextParser]_vars

-----------------------------------------------------------------------------
(* Claims about the document parser *)

NamedSections == {"education", "experience", "skills", "projects", "certifications"}

\* C8 as stated: segmentation returns exactly the keys education, experience,
\* skills, projects, certifications and other, each a string, and with no header
\* accepted the whole text is the value of other and the rest are empty.
C8_SixKeysNamedOther ==
    stage = "segmented" =>
        /\ DOMAIN sections = NamedSections \cup {"other"}
        /\ \A k \in DOMAIN sections : sections[k] \in STRING
        /\ header_indices = <<>> =>
               /\ sections["other"] = Render(text)
               /\ \A k \in NamedSections : sections[k] = ""

\* C8 as amended: the sixth key is others.  Segmentation returns exactly the keys
\* education, experience, skills, projects, certifications and others, each a
\* string, and with no header accepted the whole text is the value of others and
\* the other five are empty.
C8_SixKeys ==
    stage = "segmented" =>
        /\ DOMAIN sections = NamedSections \cup {"others"}
        /\ \A k \in DOMAIN sections : sections[k] \in STRING
        /\ header_indices = <<>> =>
               /\ sections["others"] = Render(text)
               /\ \A k \in NamedSections : sections[k] = ""

\* A header word on a line of 50 characters: no header is accepted.
C8_Witness ==
    /\ stage = "segmented"
    /\ header_indices = <<>>
    /\ \E p \in 1..Len(text) : text[p] = "EDUCATION"
    /\ sections["others"] = Render(text)
    /\ sections["others"] # ""

\* C9: segmentation accepts at most one header occurrence per section, so the
\* sorted header list has at most one entry per section (five at most).
C9_OneHeaderPerSection ==
    stage = "segmented" =>
        /\ Len(header_indices) <= 5
        /\ \A i, j \in 1..Len(header_indices) :
               i # j => header_indices[i][2] # header_indices[j][2]

\* C10: email and phone are the first match of their pattern in text order, or
\* none; links are all the URL matches in order, duplicates kept, without those
\* equal to the email; no link equals the email.
C10_ContactInfo ==
    stage = "extracted" =>
        LET emails == FindAll("email_pattern", text)
            phones == FindAll("phone_pattern", text)
            urls == FindAll("url_pattern", text)
        IN  /\ contact.email = IF emails = <<>> THEN None ELSE Some(Head(emails))
            /\ contact.phone = IF phones = <<>> THEN None ELSE Some(Head(phones))
            /\ contact.links = SelectSeq(urls, LAMBDA u : Some(u) # contact.email)
            /\ \A i \in 1..Len(contact.links) : Some(contact.links[i]) # contact.email

\* The email is also a URL match and is left out; the duplicate x.io is kept.
C10_Witness ==
    /\ stage = "extracted"
    /\ contact.email = Some("john.doe@example.com")
    /\ \E i \in 1..Len(FindAll("url_pattern", text)) :
           FindAll("url_pattern", text)[i] = "john.doe@example.com"
    /\ contact.links = <<"x.io", "x.io">>

\* The slice of the text from character offset start_idx up to end_idx.
Slice(start_idx, end_idx) ==
    SubSeq(text, ItemAt(text, start_idx), ItemAt(text, end_idx) - 1)

\* The offset at which the slice of header entry i ends.
NextOffset(i) ==
    IF i < Len(header_indices) THEN header_indices[i + 1][1] ELSE CharLen(text)

\* C25: for every accepted header occurrence (the last one of its section, whose
\* content is the one stored), the stored content is the text from the header's
\* offset up to the next accepted header, or the end of the text, without the
\* header's own line, trimmed: nothing when the slice has no line break.
C25_ContentWithoutHeaderLine ==
    stage = "segmented" =>
        \A i \in 1..Len(header_indices) :
            (\A j \in (i + 1)..Len(header_indices) :
                 header_indices[j][2] # header_indices[i][2]) =>
                LET slice == Strip(Slice(header_indices[i][1], NextOffset(i)))
                    first_newline == FirstNewline(slice, 1)
                    rest == IF first_newline = 0 THEN <<>>
                            ELSE Strip(SubSeq(slice, first_newline + 1, Len(slice)))
                IN  sections[header_indices[i][2]] = Render(rest)

\* C26: a synonym match is accepted as a header exactly when its trimmed line
\* is shorter than 50 characters.  For every synonym with a match on such a line,
\* the first such match is a header occurrence, also when earlier matches of the
\* synonym were rejected; no header occurrence lies on a line of 50 or more.
C26_ShortLineAccepted ==
    stage = "segmented" =>
        LET Short(pattern, p) == CharLen(MatchLine(text, pattern, p)) <= 49
            Candidates(pattern) ==
                SelectSeq(Matches(text, pattern), LAMBDA p : Short(pattern, p))
        IN  /\ \A name \in NamedSections :
                   \A k \in 1..Len(sections_patterns[name]) :
                       LET pattern == sections_patterns[name][k] IN
                       Candidates(pattern) # <<>> =>
                           \E i \in 1..Len(header_indices) :
                               header_indices[i]
                                   = <<Offset(text, Candidates(pattern)[1]), name>>
            /\ \A i \in 1..Len(header_indices) :
                   \E k \in 1..Len(sections_patterns[header_indices[i][2]]) :
                       LET pattern == sections_patterns[header_indices[i][2]][k] IN
                       /\ Candidates(pattern) # <<>>
                       /\ Offset(text, Candidates(pattern)[1]) = header_indices[i][1]

\* EDUCATION inside a line of exactly 50 characters, then inside a line of
\* exactly 49: the first match is rejected and the second is the header.
C26_Witness ==
    /\ stage = "segmented"
    /\ text = TextItems(<< <<"Continuing", "EDUCATION", "and vocational training twice">>,
                           <<"Continuing", "EDUCATION", "and vocational training once">> >>)
    /\ CharLen(MatchLine(text, <<"EDUCATION">>, 3)) = 50
    /\ CharLen(MatchLine(text, <<"EDUCATION">>, 9)) = 49
    /\ header_indices = << <<62, "education">> >>

\* C28: with at least one header accepted, others stays empty and the text before
\* the first accepted header reaches no section: the sections are those of the
\* text cut at that header.  others is non-empty only with no header accepted.
C28_PreambleDropped ==
    stage = "segmented" =>
        /\ header_indices # <<>> =>
               /\ sections["others"] = ""
               /\ sections = SegmentSections(Slice(header_indices[1][1], CharLen(text)))
        /\ sections["others"] # "" => header_indices = <<>>

\* Two lines before the SKILLS header: they are in no section.
C28_Witness ==
    /\ stage = "segmented"
    /\ text = TextItems(<< <<"BSc", "Physics">>, <<"SKILLS">>, <<"john.doe@example.com">> >>)
    /\ header_indices = << <<12, "skills">> >>
    /\ sections = [EmptySections EXCEPT !.skills = "john.doe@example.com"]

-----------------------------------------------------------------------------
(* The compatibility scorer (ats_score.py) *)

\* A scorer text is a sequence of items: words (runs of \w characters), single
\* punctuation marks and single spaces, no two words adjacent.
Punctuation == {",", "."}
IsWord(item) == ~IsSpace(item) /\ item \notin Punctuation

\* str.lower on the words the texts below are made of.
Lower(w) ==
    CASE w = "Seeking" -> "seeking"
      [] w = "Python" -> "python"
      [] w = "Flask" -> "flask"
      [] w = "SQL" -> "sql"
      [] w = "Docker" -> "docker"
      [] w = "AWS" -> "aws"
      [] w = "This" -> "this"
      [] w = "Just" -> "just"
      [] w = "Certified" -> "certified"
      [] w = "Architect" -> "architect"
      [] w = "Worked" -> "worked"
      [] w = "Tech" -> "tech"
      [] w = "Inc" -> "inc"
      [] w = "Built" -> "built"
      [] w = "BS" -> "bs"
      [] w = "CS" -> "cs"
      [] w = "DevOps" -> "devops"
      [] w = "Engineer" -> "engineer"
      [] w = "Infra" -> "infra"
      [] w = "Kubernetes" -> "kubernetes"
      [] w = "Data" -> "data"
      [] w = "Scientist" -> "scientist"
      [] w = "Analyze" -> "analyze"
      [] w = "Statistics" -> "statistics"
      [] w = "Jupyter" -> "jupyter"
      [] w = "React" -> "react"
      [] w = "React.js" -> "react.js"
      [] w = "Machine Learning" -> "machine learning"
      [] w = "PDF" -> "pdf"
      [] OTHER -> w

\* Every lowercase word of length 3 or more in the texts below; the position
\* of a word in this list orders the string sets of the process.
Vocabulary ==
    <<"analyze", "and", "anything", "app", "architect", "aws", "built", "certified",
      "cloud", "code", "data", "developer", "devops", "docker", "engineer",
      "experience", "flask", "inc", "infra", "infrastructure", "jupyter", "just",
      "knows", "kubernetes", "plus", "python", "scientist", "seeking", "some",
      "sql", "statistics", "tech", "text", "that", "this", "web", "who", "with",
      "worked">>

\* ats_score.py:164, the hard-coded list.
FallbackStopWords ==
    {"this", "that", "with", "from", "and", "the", "for", "are", "also", "your",
     "have", "been", "was"}

\* ats_score.py:160-161: the entries of nltk's English list that are words of
\* Vocabulary or of the hard-coded list.
NltkStopWords ==
    {"this", "that", "with", "from", "and", "the", "for", "are", "your",
     "have", "been", "was", "who", "some", "just"}

StopWords(nltk) == IF nltk THEN NltkStopWords ELSE FallbackStopWords

\* re.findall(r'\b\w{3,}\b', text.lower())
FindWords(items) ==
    LET words == SelectSeq(items, LAMBDA item : IsWord(item) /\ Len(item) >= 3)
    IN  [i \in 1..Len(words) |-> Lower(words[i])]

_extract_keywords(items, nltk) ==
    LET words == FindWords(items)
    IN  {words[i] : i \in 1..Len(words)} \ StopWords(nltk)

\* list(s) for a set of strings: the process's hash order decides, here one of
\* two orders.
Reverse(seq) == [i \in 1..Len(seq) |-> seq[Len(seq) + 1 - i]]
List(S, order) ==
    LET ascending == SelectSeq(Vocabulary, LAMBDA w : w \in S)
    IN  IF order = "ascending" THEN ascending ELSE Reverse(ascending)

\* seq[:n]
Take(seq, n) == SubSeq(seq, 1, IF n < Len(seq) THEN n ELSE Len(seq))

\* dict.get(key, default)
Get(dict, key, default) == IF key \in DOMAIN dict THEN dict[key] ELSE default

\* Scores are Python floats; the model holds each as an exact fraction.
Frac(n, d) == [num |-> n, den |-> d]
Whole(n) == Frac(n, 1)
FracLess(a, b) == a.num * b.den < b.num * a.den
FracEq(a, b) == a.num * b.den = b.num * a.den
FracMin(a, b) == IF FracLess(b, a) THEN b ELSE a
FracAdd(a, b) == Frac(a.num * b.den + b.num * a.den, a.den * b.den)
FracScale(k, a) == Frac(k * a.num, a.den)

\* round(x) for x = n/d >= 0, ties to even
RoundHalfEven(n, d) ==
    LET q == n \div d
        r == n % d
    IN  IF 2 * r < d THEN q
        ELSE IF 2 * r > d THEN q + 1
        ELSE IF q % 2 = 0 THEN q ELSE q + 1

\* self.weights, in hundredths
weights ==
    [keywords |-> 40, experience |-> 30, projects |-> 15, certifications |-> 10,
     formatting |-> 5]

\* len(text.split()): the maximal runs of items that are not whitespace
SplitCount(items) ==
    Cardinality({i \in 1..Len(items) :
                    ~IsSpace(items[i]) /\ (i = 1 \/ IsSpace(items[i - 1]))})

\* not text.strip()
IsBlank(items) == Strip(items) = <<>>

KeywordsCap == 10
TermsCap == 5

ScoreKeywordsIgnoringSkills(resume, jd, nltk, order) ==
    LET jd_keywords == _extract_keywords(jd, nltk)
        resume_keywords == _extract_keywords(Get(resume, "raw_text", <<>>), nltk)
        matches == jd_keywords \cap resume_keywords
        missing == jd_keywords \ resume_keywords
    IN  [score |-> IF jd_keywords # {}
                   THEN FracMin(Frac(Cardinality(matches) * 100, Cardinality(jd_keywords)),
                                Whole(100))
                   ELSE Whole(0),
         matching_keywords |-> Take(List(matches, order), KeywordsCap),
         missing_keywords |-> Take(List(missing, order), KeywordsCap)]

_score_keywords(resume, jd, nltk, order) ==
    LET jd_keywords == _extract_keywords(jd, nltk)
        resume_text == Get(resume, "raw_text", <<>>) \o <<SP>>
                       \o Get(Get(resume, "sections", <<>>), "skills", <<>>)
        resume_keywords == _extract_keywords(resume_text, nltk)
        matches == jd_keywords \cap resume_keywords
        missing == jd_keywords \ resume_keywords
    IN  [score |-> IF jd_keywords # {}
                   THEN FracMin(Frac(Cardinality(matches) * 100, Cardinality(jd_keywords)),
                                Whole(100))
                   ELSE Whole(0),
         matching_keywords |-> Take(List(matches, order), KeywordsCap),
         missing_keywords |-> Take(List(missing, order), KeywordsCap)]

ScoreExperienceUnscaled(exp_text, jd, nltk, order) ==
    IF IsBlank(exp_text)
    THEN [score |-> Whole(0), message |-> "No experience section found."]
    ELSE LET jd_keywords == _extract_keywords(jd, nltk)
             matches == jd_keywords \cap _extract_keywords(exp_text, nltk)
         IN  [score |-> IF jd_keywords # {}
                        THEN Frac(Cardinality(matches) * 100, Cardinality(jd_keywords))
                        ELSE Whole(0),
              relevant_terms_found |-> Take(List(matches, order), TermsCap)]

_score_experience(exp_text, jd, nltk, order) ==
    IF IsBlank(exp_text)
    THEN [score |-> Whole(0), message |-> "No experience section found."]
    ELSE LET jd_keywords == _extract_keywords(jd, nltk)
             exp_keywords == _extract_keywords(exp_text, nltk)
             matches == jd_keywords \cap exp_keywords
             \* len(matches) / (len(jd_keywords) * 0.5 if jd_keywords else 1) * 100
             ratio == IF jd_keywords # {}
                      THEN Frac(Cardinality(matches) * 2 * 100, Cardinality(jd_keywords))
                      ELSE Frac(Cardinality(matches) * 100, 1)
         IN  [score |-> FracMin(ratio, Whole(100)),
              relevant_terms_found |-> Take(List(matches, order), TermsCap)]

_score_projects(project_text) ==
    IF IsBlank(project_text)
    THEN [score |-> Whole(0), message |-> "No projects section found."]
    ELSE LET word_count == SplitCount(project_text)
         IN  [score |-> IF word_count > 100 THEN Whole(100)
                        ELSE IF word_count > 50 THEN Whole(70)
                        ELSE Whole(40),
              word_count |-> word_count]

_score_certifications(cert_text) ==
    [score |-> IF ~IsBlank(cert_text) THEN Whole(100) ELSE Whole(0)]

ScoreFormattingCountsKeys(secs) ==
    LET required == <<"education", "experience", "skills">>
        found == SelectSeq(required, LAMBDA s : s \in DOMAIN secs)
    IN  [score |-> Frac(Len(found) * 100, Len(required)),
         missing_sections |->
             SelectSeq(required, LAMBDA s : \A i \in 1..Len(found) : found[i] # s)]

_score_formatting(secs) ==
    LET required == <<"education", "experience", "skills">>
        found == SelectSeq(required, LAMBDA s : ~IsBlank(Get(secs, s, <<>>)))
    IN  [score |-> Frac(Len(found) * 100, Len(required)),
         missing_sections |->
             SelectSeq(required, LAMBDA s : \A i \in 1..Len(found) : found[i] # s)]

KeywordsSuggestion(names) ==
    [text |-> "Add more keywords from the job description, especially: ",
     names |-> names]
ExperienceSuggestion ==
    [text |-> "Tailor your experience bullet points to better match the target role's requirements.",
     names |-> <<>>]
ProjectsSuggestion ==
    [text |-> "Add a projects section to demonstrate practical application of your skills.",
     names |-> <<>>]
SectionsSuggestion(names) ==
    [text |-> "Ensure your resume has these standard sections: ", names |-> names]

GenerateSuggestionsAtSixty(kw, exp, proj, cert, fmt) ==
    (IF FracLess(kw.score, Whole(60))
     THEN <<KeywordsSuggestion(Take(kw.missing_keywords, 3))>> ELSE <<>>)
    \o (IF FracLess(exp.score, Whole(50)) THEN <<ExperienceSuggestion>> ELSE <<>>)
    \o (IF FracEq(proj.score, Whole(0)) THEN <<ProjectsSuggestion>> ELSE <<>>)
    \o (IF FracLess(fmt.score, Whole(100))
        THEN <<SectionsSuggestion(fmt.missing_sections)>> ELSE <<>>)

_generate_suggestions(kw, exp, proj, cert, fmt) ==
    (IF FracLess(kw.score, Whole(70))
     THEN <<KeywordsSuggestion(Take(kw.missing_keywords, 3))>> ELSE <<>>)
    \o (IF FracLess(exp.score, Whole(50)) THEN <<ExperienceSuggestion>> ELSE <<>>)
    \o (IF FracEq(proj.score, Whole(0)) THEN <<ProjectsSuggestion>> ELSE <<>>)
    \o (IF FracLess(fmt.score, Whole(100))
        THEN <<SectionsSuggestion(fmt.missing_sections)>> ELSE <<>>)

\* The weighted total in hundredths of a point, as an exact fraction.
WeightedTotal(breakdown) ==
    FracAdd(FracScale(weights.keywords, breakdown.keywords.score),
    FracAdd(FracScale(weights.experience, breakdown.experience.score),
    FracAdd(FracScale(weights.projects, breakdown.projects.score),
    FracAdd(FracScale(weights.certifications, breakdown.certifications.score),
            FracScale(weights.formatting, breakdown.formatting.score)))))

\* round(x, 2), for x given in hundredths
Round2(hundredths) == Frac(RoundHalfEven(hundredths.num, hundredths.den), 100)

Truncate2(hundredths) == Frac(hundredths.num \div hundredths.den, 100)

CalculateScoreTruncating(resume, jd, nltk, order) ==
    LET secs == Get(resume, "sections", <<>>)
        breakdown ==
            [keywords |-> _score_keywords(resume, jd, nltk, order),
             experience |-> _score_experience(Get(secs, "experience", <<>>), jd, nltk, order),
             projects |-> _score_projects(Get(secs, "projects", <<>>)),
             certifications |-> _score_certifications(Get(secs, "certifications", <<>>)),
             formatting |-> _score_formatting(secs)]
    IN  [overall_score |-> Truncate2(WeightedTotal(breakdown)),
         breakdown |-> breakdown,
         suggestions |-> _generate_suggestions(breakdown.keywords, breakdown.experience,
                             breakdown.projects, breakdown.certifications,
                             breakdown.formatting)]

calculate_score(resume, jd, nltk, order) ==
    LET secs == Get(resume, "sections", <<>>)
        breakdown ==
            [keywords |-> _score_keywords(resume, jd, nltk, order),
             experience |-> _score_experience(Get(secs, "experience", <<>>), jd, nltk, order),
             projects |-> _score_projects(Get(secs, "projects", <<>>)),
             certifications |-> _score_certifications(Get(secs, "certifications", <<>>)),
             formatting |-> _score_formatting(secs)]
    IN  [overall_score |-> Round2(WeightedTotal(breakdown)),
         breakdown |-> breakdown,
         suggestions |-> _generate_suggestions(breakdown.keywords, breakdown.experience,
                             breakdown.projects, breakdown.certifications,
                             breakdown.formatting)]

-----------------------------------------------------------------------------
(* calculate_score applied to one resume and one job description *)

\* ' '.join(words), as items
Spaced(words) ==
    [i \in 1..(IF words = <<>> THEN 0 ELSE 2 * Len(words) - 1) |->
        IF i % 2 = 1 THEN words[(i + 1) \div 2] ELSE SP]

\* n times the same word
Repeat(word, n) == Spaced([i \in 1..n |-> word])

\* The job description of ats_score.py:182.
DockerJob ==
    <<"Seeking", SP, "a", SP, "Python", SP, "developer", SP, "who", SP, "knows", SP,
      "Flask", ",", SP, "SQL", ",", SP, "and", SP, "Docker", ".", SP, "AWS", SP,
      "experience", SP, "is", SP, "a", SP, "plus", ".">>

JobDescriptions ==
    {<<>>, Spaced(<<"This", "and", "that">>), Spaced(<<"Python", "and", "Docker">>),
     DockerJob}

\* The raw text of test_ats_score.py:39, that of ats_score.py:173 and a resume
\* that repeats the job description.
RawTexts ==
    {Spaced(<<"Just", "some", "text">>),
     <<"Python", SP, "developer", SP, "with", SP, "experience", SP, "in", SP, "Flask",
       SP, "and", SP, "SQL", ".", SP, "Certified", SP, "AWS", SP, "Architect", ".">>,
     DockerJob}

\* A section of the resume: None when the key is absent, Some(text) otherwise.
SkillsChoices ==
    {None, Some(<<SP>>), Some(<<"Docker">>),
     Some(<<"Python", ",", SP, "Flask", ",", SP, "SQL", ",", SP, "AWS">>)}
ExperienceChoices ==
    {None, Some(<<SP>>),
     Some(<<"Worked", SP, "as", SP, "a", SP, "developer", SP, "at", SP, "Tech", SP,
            "Inc", ".">>),
     Some(Spaced(<<"Python", "Flask", "SQL", "Docker", "AWS", "developer">>))}
ProjectsChoices ==
    {None, Some(<<SP>>),
     Some(<<"Built", SP, "a", SP, "web", SP, "app", SP, "with", SP, "Flask", ".">>),
     Some(Repeat("built", 50)), Some(Repeat("built", 51)),
     Some(Repeat("built", 100)), Some(Repeat("built", 101))}
CertificationsChoices == {None, Some(Spaced(<<"AWS", "Certified">>))}
EducationChoices == {None, Some(Spaced(<<"BS", "in", "CS">>))}

\* The sections dict holding the chosen sections.
SectionsOf(choice) ==
    [k \in {key \in DOMAIN choice : choice[key] # None} |-> choice[k][1]]

Resumes ==
    {[raw_text |-> raw,
      sections |-> SectionsOf([education |-> ed, experience |-> ex, skills |-> sk,
                               projects |-> pr, certifications |-> ce])] :
        raw \in RawTexts, ed \in EducationChoices, ex \in ExperienceChoices,
        sk \in SkillsChoices, pr \in ProjectsChoices, ce \in CertificationsChoices}

CalculateScoreCall ==
    /\ called = "input"
    /\ resume_data # <<>>
    /\ called' = "calculate_score"
    /\ ats_results' = calculate_score(resume_data, job_description, nltk_available,
                                      hash_order)
    /\ UNCHANGED <<storeVars, seqVars, concVars, parserVars, gapVars, request,
                   retriever_calls, response, adviceVars, uploadVars, nltk_available,
                   hash_order, resume_data, job_description>>

InitScorer ==
    /\ nltk_available \in BOOLEAN
    /\ hash_order \in {"ascending", "descending"}
    /\ resume_data \in Resumes
    /\ job_description \in JobDescriptions
    /\ ats_results = <<>>
    /\ request = <<>>
    /\ retriever_calls = 0
    /\ called = "input"
    /\ response = <<>>
    /\ AdviceOff
    /\ UploadOff
    /\ StoreOff
    /\ ParserOff
    /\ GapOff

NextScorer == CalculateScoreCall

SpecScorer == InitScorer /\ [][NextScorer]_vars

-----------------------------------------------------------------------------
(* Claims about the compatibility scorer *)

ScoreReturned == called = "calculate_score"
Breakdown == ats_results.breakdown
SubScores == {"keywords", "experience", "projects", "certifications", "formatting"}

\* The target tokens, the document tokens and the experience tokens of the call.
TargetTokens == _extract_keywords(job_description, nltk_available)
DocumentTokens ==
    _extract_keywords(resume_data.raw_text \o <<SP>>
                          \o Get(resume_data.sections, "skills", <<>>),
                      nltk_available)
ExperienceTokens ==
    _extract_keywords(Get(resume_data.sections, "experience", <<>>), nltk_available)
Elements(seq) == {seq[i] : i \in 1..Len(seq)}
NoDuplicates(seq) == Cardinality(Elements(seq)) = Len(seq)

\* 0.40 keywords + 0.30 experience + 0.15 projects + 0.10 certifications
\* + 0.05 formatting, in hundredths of a point
ClaimedTotal ==
    FracAdd(FracScale(40, Breakdown.keywords.score),
    FracAdd(FracScale(30, Breakdown.experience.score),
    FracAdd(FracScale(15, Breakdown.projects.score),
    FracAdd(FracScale(10, Breakdown.certifications.score),
            FracScale(5, Breakdown.formatting.score)))))

\* C11: the five weights are 0.40, 0.30, 0.15, 0.10 and 0.05 and sum to 1.0;
\* every sub-score lies in [0,100]; the overall score is the weighted sum of the
\* five sub-scores rounded to two decimals (the whole number of hundredths
\* nearest to the sum) and lies in [0,100].
C11_WeightedOverall ==
    /\ weights = [keywords |-> 40, experience |-> 30, projects |-> 15,
                  certifications |-> 10, formatting |-> 5]
    /\ weights.keywords + weights.experience + weights.projects
           + weights.certifications + weights.formatting = 100
    /\ ScoreReturned =>
        LET hundredths == ats_results.overall_score.num
            distance == hundredths * ClaimedTotal.den - ClaimedTotal.num
        IN  /\ \A k \in SubScores :
                   /\ ~FracLess(Breakdown[k].score, Whole(0))
                   /\ ~FracLess(Whole(100), Breakdown[k].score)
            /\ ats_results.overall_score.den = 100
            /\ 2 * distance <= ClaimedTotal.den
            /\ -2 * distance <= ClaimedTotal.den
            /\ hundredths >= 0
            /\ hundredths <= 100 * 100

\* All five sub-scores are positive and the total is rounded up.
C11_Witness ==
    /\ ScoreReturned
    /\ \A k \in SubScores : FracLess(Whole(0), Breakdown[k].score)
    /\ 2 * (ClaimedTotal.num % ClaimedTotal.den) > ClaimedTotal.den

\* C12 as stated: the keyword score is 100 x |T \cap D| / |T|, 0 when T is empty
\* and never above 100, and the matching and missing keywords partition T.
C12_KeywordsPartitionTarget ==
    ScoreReturned =>
        LET kw == Breakdown.keywords
        IN  /\ FracEq(kw.score,
                      IF TargetTokens = {} THEN Whole(0)
                      ELSE Frac(100 * Cardinality(TargetTokens \cap DocumentTokens),
                                Cardinality(TargetTokens)))
            /\ ~FracLess(Whole(100), kw.score)
            /\ Elements(kw.matching_keywords) \cup Elements(kw.missing_keywords)
                   = TargetTokens
            /\ Elements(kw.matching_keywords) \cap Elements(kw.missing_keywords) = {}

\* C12 as amended: the score is as stated; matching_keywords holds without
\* repetition the target tokens found in the document and missing_keywords those
\* not found, each cut to its first 10 entries, so the two partition T when
\* neither set has more than 10 tokens; the score is positive as soon as one
\* target token occurs in the document.
C12_KeywordScore ==
    ScoreReturned =>
        LET kw == Breakdown.keywords
            found == TargetTokens \cap DocumentTokens
            absent == TargetTokens \ DocumentTokens
            Cut(n) == IF n < 10 THEN n ELSE 10
        IN  /\ FracEq(kw.score,
                      IF TargetTokens = {} THEN Whole(0)
                      ELSE Frac(100 * Cardinality(found), Cardinality(TargetTokens)))
            /\ ~FracLess(Whole(100), kw.score)
            /\ Elements(kw.matching_keywords) \subseteq found
            /\ Elements(kw.missing_keywords) \subseteq absent
            /\ NoDuplicates(kw.matching_keywords)
            /\ NoDuplicates(kw.missing_keywords)
            /\ Len(kw.matching_keywords) = Cut(Cardinality(found))
            /\ Len(kw.missing_keywords) = Cut(Cardinality(absent))
            /\ found # {} => FracLess(Whole(0), kw.score)

\* Eleven target tokens occur in the document and ten of them are reported.
C12_Witness ==
    /\ ScoreReturned
    /\ Cardinality(TargetTokens \cap DocumentTokens) = 11
    /\ Len(Breakdown.keywords.matching_keywords) = 10
    /\ FracEq(Breakdown.keywords.score, Whole(100))

\* C13: the experience sub-score is exactly 0, from the branch that divides
\* nothing, when the experience section is absent, empty or whitespace-only;
\* otherwise it is min(100, 100 x |T \cap E| / (|T| / 2)), and 0 when T is empty.
C13_ExperienceScore ==
    ScoreReturned =>
        LET exp == Breakdown.experience
            exp_text == Get(resume_data.sections, "experience", <<>>)
        IN  IF \A i \in 1..Len(exp_text) : exp_text[i] \in {SP, NL}
            THEN exp = [score |-> Whole(0), message |-> "No experience section found."]
            ELSE /\ "message" \notin DOMAIN exp
                 /\ FracEq(exp.score,
                        IF TargetTokens = {} THEN Whole(0)
                        ELSE FracMin(Whole(100),
                                 Frac(200 * Cardinality(TargetTokens \cap ExperienceTokens),
                                      Cardinality(TargetTokens))))

\* An experience section with one target token of eleven scores 200/11.
C13_Witness ==
    /\ ScoreReturned
    /\ Cardinality(TargetTokens) = 11
    /\ Cardinality(TargetTokens \cap ExperienceTokens) = 1
    /\ FracEq(Breakdown.experience.score, Frac(200, 11))

\* C14: the formatting score is 100 x (number of the sections education,
\* experience, skills that are present and not whitespace-only) / 3;
\* missing_sections lists exactly the absent or whitespace-only ones of the three;
\* the score is below 100 exactly when missing_sections is non-empty.
C14_FormattingScore ==
    ScoreReturned =>
        LET fmt == Breakdown.formatting
            secs == resume_data.sections
            Filled(s) == /\ s \in DOMAIN secs
                         /\ \E i \in 1..Len(secs[s]) : secs[s][i] \notin {SP, NL}
            present == {s \in {"education", "experience", "skills"} : Filled(s)}
        IN  /\ FracEq(fmt.score, Frac(100 * Cardinality(present), 3))
            /\ fmt.missing_sections =
                   SelectSeq(<<"education", "experience", "skills">>,
                             LAMBDA s : s \notin present)
            /\ FracLess(fmt.score, Whole(100)) <=> fmt.missing_sections # <<>>

\* A whitespace-only skills section is reported missing next to a filled one.
C14_Witness ==
    /\ ScoreReturned
    /\ "skills" \in DOMAIN resume_data.sections
    /\ Breakdown.formatting.missing_sections = <<"skills">>
    /\ FracEq(Breakdown.formatting.score, Frac(200, 3))

\* C15: the suggestions are, in this order and nothing else: the missing-keywords
\* suggestion naming the first three entries at most of missing_keywords iff the
\* keyword score is below 70; the experience suggestion iff the experience score
\* is below 50; the projects suggestion iff the project score is 0; the sections
\* suggestion naming exactly the missing sections iff the formatting score is
\* below 100.
C15_Suggestions ==
    ScoreReturned =>
        LET b == Breakdown
            s == ats_results.suggestions
            first3 == SubSeq(b.keywords.missing_keywords, 1,
                             IF Len(b.keywords.missing_keywords) < 3
                             THEN Len(b.keywords.missing_keywords) ELSE 3)
            rules ==
                <<[fires |-> FracLess(b.keywords.score, Whole(70)),
                   says |-> KeywordsSuggestion(first3)],
                  [fires |-> FracLess(b.experience.score, Whole(50)),
                   says |-> ExperienceSuggestion],
                  [fires |-> FracEq(b.projects.score, Whole(0)),
                   says |-> ProjectsSuggestion],
                  [fires |-> FracLess(b.formatting.score, Whole(100)),
                   says |-> SectionsSuggestion(b.formatting.missing_sections)]>>
            fired == SelectSeq(rules, LAMBDA r : r.fires)
        IN  s = [i \in 1..Len(fired) |-> fired[i].says]

\* A keyword score of 700/11 (between 60 and 70) with more than three missing
\* keywords: the first suggestion names three of them.
C15_Witness ==
    /\ ScoreReturned
    /\ FracEq(Breakdown.keywords.score, Frac(700, 11))
    /\ Len(Breakdown.keywords.missing_keywords) = 4
    /\ Len(ats_results.suggestions) >= 1
    /\ ats_results.suggestions[1] =
           KeywordsSuggestion(SubSeq(Breakdown.keywords.missing_keywords, 1, 3))

-----------------------------------------------------------------------------
(* The skill-gap analyzer (skill_gap.py) *)

MaxResumeSkills == 2     \* most entries of resume_skills
MaxRequiredSkills == 3   \* most entries of required_skills

\* The skills of test_skill_gap.py and skill_gap.py:107-108, with stray case
\* and whitespace.
ResumeSkillPool == {"React.js", "SQL", " "}
RequiredSkillPool == {"react.js ", "React", "PostgreSQL", " "}

\* s.lower().strip()
Normalize(s) ==
    CASE s = "react.js " -> "react.js"
      [] s = "Python" -> "python"
      [] s = "python " -> "python"
      [] s = "React" -> "react"
      [] s = "React.js" -> "react.js"
      [] s = "PostgreSQL" -> "postgresql"
      [] s = "Docker" -> "docker"
      [] s = "SQL" -> "sql"
      [] s = " " -> ""
      [] s = "Flask" -> "flask"
      [] s = "AWS" -> "aws"
      [] s = "Kubernetes" -> "kubernetes"
      [] s = "Statistics" -> "statistics"
      [] s = "Jupyter" -> "jupyter"
      [] s = "JavaScript" -> "javascript"
      [] s = "Git" -> "git"
      [] OTHER -> s

\* [s.lower().strip() for s in skills if s.strip()]
NormalizeAll(skills) ==
    LET kept == SelectSeq(skills, LAMBDA s : Normalize(s) # "")
    IN  [i \in 1..Len(kept) |-> Normalize(kept[i])]

\* a in b, for normalized skills
IsSubstring(a, b) ==
    \/ a = b
    \/ <<a, b>> \in {<<"react", "react.js">>, <<"sql", "postgresql">>, <<"learning", "machine learning">>, <<" ", "machine learning">>, <<"", "aws">>, <<"", "docker">>, <<"", "flask">>, <<"", "git">>, <<"", "javascript">>, <<"", "jupyter">>, <<"", "kubernetes">>, <<"", "postgresql">>, <<"", "python">>, <<"", "react">>, <<"", "react.js">>, <<"", "sql">>, <<"", "statistics">>, <<"", "machine learning">>, <<"", "learning">>, <<"", " ">>}

\* Whether the two skills share a character n-gram (n = 2..4, words padded with
\* a space): their TF-IDF vectors are not orthogonal.
SharesNgram(a, b) ==
    \/ a = b
    \/ {a, b} \in
        {{"aws", "kubernetes"}, {"aws", "react.js"}, {"aws", "statistics"},
         {"docker", "jupyter"}, {"docker", "kubernetes"}, {"flask", "javascript"},
         {"git", "javascript"}, {"git", "react"}, {"javascript", "jupyter"},
         {"javascript", "react"}, {"jupyter", "kubernetes"}, {"jupyter", "python"},
         {"kubernetes", "postgresql"}, {"kubernetes", "react.js"},
         {"kubernetes", "statistics"}, {"postgresql", "python"},
         {"postgresql", "react"}, {"postgresql", "react.js"}, {"postgresql", "sql"},
         {"postgresql", "statistics"}, {"react", "react.js"},
         {"react.js", "statistics"}, {"sql", "statistics"}}

\* Cosine similarities, in thousandths: around the thresholds 0.4 and 0.9.
SimValues == {399, 400, 896, 900}
Identical == 1000
Orthogonal == 0

\* The similarity of two skills within one call: 1 for equal strings, 0 for
\* strings sharing no n-gram, otherwise what the corpus makes of it (sim).
Similarity(a, b, sim) ==
    IF a = b THEN Identical
    ELSE IF SharesNgram(a, b) THEN sim[<<a, b>>]
    ELSE Orthogonal

\* failing: the targets for which the vectorizer raises (line 102).
_calculate_similarities(target, source_list, sim, failing) ==
    [i \in 1..Len(source_list) |->
        IF target \in failing THEN Orthogonal
        ELSE Similarity(target, source_list[i], sim)]

Max(seq) == CHOOSE m \in {seq[i] : i \in 1..Len(seq)} : \A i \in 1..Len(seq) : seq[i] <= m
\* list.index(x)
IndexOf(seq, x) == CHOOSE i \in 1..Len(seq) : seq[i] = x /\ \A j \in 1..(i - 1) : seq[j] # x

StrongThreshold == 900
similarity_threshold == 400

\* One required skill in the similarity mode (lines 51-63): what it adds to
\* strong_matches, weak_matches and missing_skills.
ClassifyAboveThresholds(req_skill, resume_skills_norm, sim, failing) ==
    LET similarities == _calculate_similarities(req_skill, resume_skills_norm, sim, failing)
        max_sim == IF similarities # <<>> THEN Max(similarities) ELSE 0
    IN  IF max_sim > StrongThreshold
        THEN [strong |-> <<req_skill>>, weak |-> <<>>, missing |-> <<>>]
        ELSE IF max_sim > similarity_threshold
        THEN [strong |-> <<>>,
              weak |-> <<[skill |-> req_skill,
                          matched_with |-> resume_skills_norm[IndexOf(similarities, max_sim)],
                          similarity |-> Frac(RoundHalfEven(max_sim, 10), 100)]>>,
              missing |-> <<>>]
        ELSE [strong |-> <<>>, weak |-> <<>>, missing |-> <<req_skill>>]

ClassifyBySimilarity(req_skill, resume_skills_norm, sim, failing) ==
    LET similarities == _calculate_similarities(req_skill, resume_skills_norm, sim, failing)
        max_sim == IF similarities # <<>> THEN Max(similarities) ELSE 0
    IN  IF max_sim >= StrongThreshold
        THEN [strong |-> <<req_skill>>, weak |-> <<>>, missing |-> <<>>]
        ELSE IF max_sim >= similarity_threshold
        THEN [strong |-> <<>>,
              weak |-> <<[skill |-> req_skill,
                          matched_with |-> resume_skills_norm[IndexOf(similarities, max_sim)],
                          similarity |-> Frac(RoundHalfEven(max_sim, 10), 100)]>>,
              missing |-> <<>>]
        ELSE [strong |-> <<>>, weak |-> <<>>, missing |-> <<req_skill>>]

ClassifyByEqualityOnly(req_skill, resume_skills_norm) ==
    IF \E i \in 1..Len(resume_skills_norm) : resume_skills_norm[i] = req_skill
    THEN [strong |-> <<req_skill>>, weak |-> <<>>, missing |-> <<>>]
    ELSE [strong |-> <<>>, weak |-> <<>>, missing |-> <<req_skill>>]

\* One required skill in the fallback mode (lines 67-79).
ClassifyBySubstring(req_skill, resume_skills_norm) ==
    IF \E i \in 1..Len(resume_skills_norm) : resume_skills_norm[i] = req_skill
    THEN [strong |-> <<req_skill>>, weak |-> <<>>, missing |-> <<>>]
    ELSE LET related == SelectSeq(resume_skills_norm,
                            LAMBDA res_skill : \/ IsSubstring(req_skill, res_skill)
                                               \/ IsSubstring(res_skill, req_skill))
         IN  IF related # <<>>
             THEN [strong |-> <<>>,
                   weak |-> <<[skill |-> req_skill, matched_with |-> Head(related)]>>,
                   missing |-> <<>>]
             ELSE [strong |-> <<>>, weak |-> <<>>, missing |-> <<req_skill>>]


\* The concatenation of the classifications of the required skills, in order.
RECURSIVE ClassifyAll(_, _, _, _, _)
ClassifyAll(required_norm, resume_norm, similarity_mode, sim, failing) ==
    IF required_norm = <<>>
    THEN [strong |-> <<>>, weak |-> <<>>, missing |-> <<>>]
    ELSE LET first == IF similarity_mode
                      THEN ClassifyBySimilarity(Head(required_norm), resume_norm, sim, failing)
                      ELSE ClassifyBySubstring(Head(required_norm), resume_norm)
             rest == ClassifyAll(Tail(required_norm), resume_norm, similarity_mode, sim,
                                 failing)
         IN  [strong |-> first.strong \o rest.strong,
              weak |-> first.weak \o rest.weak,
              missing |-> first.missing \o rest.missing]

\* Line 48: whether analyze takes the TF-IDF branch.
SimilarityMode(sklearn, resume, required) ==
    /\ sklearn
    /\ Len(NormalizeAll(resume)) > 0
    /\ Len(NormalizeAll(required)) > 0

\* round(match_percentage, 2) of line 82, in hundredths
MatchPercentage(strong, weak, total_req) ==
    IF total_req > 0
    THEN Frac(RoundHalfEven((2 * strong + weak) * 50 * 100, total_req), 100)
    ELSE Frac(0, 100)

AnalyzeWeakAsStrong(resume, required, sklearn, sim, failing) ==
    IF resume = <<>>
    THEN [strong_matches |-> <<>>, weak_matches |-> <<>>,
          missing_skills |-> required, match_percentage |-> Whole(0)]
    ELSE LET resume_skills_norm == NormalizeAll(resume)
             required_skills_norm == NormalizeAll(required)
             got == ClassifyAll(required_skills_norm, resume_skills_norm,
                                SimilarityMode(sklearn, resume, required), sim, failing)
         IN  [match_percentage |->
                  MatchPercentage(Len(got.strong) + Len(got.weak), 0,
                                  Len(required_skills_norm)),
              strong_matches |-> got.strong,
              weak_matches |-> got.weak,
              missing_skills |-> got.missing]

AnalyzeScoringEmptyResume(resume, required, sklearn, sim, failing) ==
    LET resume_skills_norm == NormalizeAll(resume)
        required_skills_norm == NormalizeAll(required)
        got == ClassifyAll(required_skills_norm, resume_skills_norm,
                           SimilarityMode(sklearn, resume, required), sim, failing)
    IN  [match_percentage |->
             IF resume = <<>> THEN Whole(100)
             ELSE MatchPercentage(Len(got.strong), Len(got.weak), Len(required_skills_norm)),
         strong_matches |-> got.strong,
         weak_matches |-> got.weak,
         missing_skills |-> IF resume = <<>> THEN required ELSE got.missing]

analyze(resume, required, sklearn, sim, failing) ==
    IF resume = <<>>
    THEN [strong_matches |-> <<>>, weak_matches |-> <<>>,
          missing_skills |-> required, match_percentage |-> Whole(0)]
    ELSE LET resume_skills_norm == NormalizeAll(resume)
             required_skills_norm == NormalizeAll(required)
             got == ClassifyAll(required_skills_norm, resume_skills_norm,
                                SimilarityMode(sklearn, resume, required), sim, failing)
         IN  [match_percentage |->
                  MatchPercentage(Len(got.strong), Len(got.weak), Len(required_skills_norm)),
              strong_matches |-> got.strong,
              weak_matches |-> got.weak,
              missing_skills |-> got.missing]

\* The calls of _calculate_similarities one analyze makes: one for each
\* normalized required skill in the similarity mode, none otherwise.
SimilarityCalls(resume, required, sklearn) ==
    IF SimilarityMode(sklearn, resume, required) THEN Len(NormalizeAll(required)) ELSE 0

\* The pairs of one call whose similarity the corpus decides.
OpenPairs(resume, required, sklearn) ==
    IF SimilarityMode(sklearn, resume, required)
    THEN {p \in {<<NormalizeAll(required)[i], NormalizeAll(resume)[j]>> :
                     i \in 1..Len(NormalizeAll(required)),
                     j \in 1..Len(NormalizeAll(resume))} :
              p[1] # p[2] /\ SharesNgram(p[1], p[2])}
    ELSE {}

\* The targets for which the vectorizer can raise in one call.
OpenTargets(resume, required, sklearn) ==
    IF SimilarityMode(sklearn, resume, required)
    THEN {NormalizeAll(required)[i] : i \in 1..Len(NormalizeAll(required))}
    ELSE {}

\* What the calls of line 50 return, one list for each normalized required skill.
Similarities(resume, required, sklearn, sim, failing) ==
    IF SimilarityMode(sklearn, resume, required)
    THEN [i \in 1..Len(NormalizeAll(required)) |->
             _calculate_similarities(NormalizeAll(required)[i], NormalizeAll(resume), sim,
                                     failing)]
    ELSE <<>>

-----------------------------------------------------------------------------
(* analyze applied to one pair of skill lists *)

AnalyzeCall ==
    /\ called = "input"
    /\ \E sim \in [OpenPairs(resume_skills, required_skills, SKLEARN_AVAILABLE) -> SimValues],
          failing \in SUBSET OpenTargets(resume_skills, required_skills, SKLEARN_AVAILABLE) :
            /\ gap_results' = analyze(resume_skills, required_skills, SKLEARN_AVAILABLE,
                                      sim, failing)
            /\ similarity_lists' = Similarities(resume_skills, required_skills,
                                            SKLEARN_AVAILABLE, sim, failing)
    /\ similarity_calls' = similarity_calls
           + SimilarityCalls(resume_skills, required_skills, SKLEARN_AVAILABLE)
    /\ called' = "analyze"
    /\ UNCHANGED <<storeVars, seqVars, concVars, parserVars, scorerVars, request,
                   retriever_calls, response, adviceVars, uploadVars, SKLEARN_AVAILABLE,
                   resume_skills, required_skills>>

InitGap ==
    /\ SKLEARN_AVAILABLE \in BOOLEAN
    /\ resume_skills \in UNION {[1..n -> ResumeSkillPool] : n \in 0..MaxResumeSkills}
    /\ required_skills \in UNION {[1..n -> RequiredSkillPool] : n \in 0..MaxRequiredSkills}
    /\ similarity_calls = 0
    /\ similarity_lists = <<>>
    /\ gap_results = <<>>
    /\ request = <<>>
    /\ retriever_calls = 0
    /\ called = "input"
    /\ response = <<>>
    /\ AdviceOff
    /\ UploadOff
    /\ StoreOff
    /\ ParserOff
    /\ ScorerOff

NextGap == AnalyzeCall

SpecGap == InitGap /\ [][NextGap]_vars

-----------------------------------------------------------------------------
(* Claims about the skill-gap analyzer *)

Analyzed == called = "analyze"
\* How often x occurs in a list.
Occurrences(seq, x) == Cardinality({i \in 1..Len(seq) : seq[i] = x})
WeakSkills == [i \in 1..Len(gap_results.weak_matches) |-> gap_results.weak_matches[i].skill]
NonBlank(skills) == SelectSeq(skills, LAMBDA s : s \notin {"", " "})

\* C16: with an empty resume_skills every required skill is reported missing,
\* strong and weak matches are empty, match_percentage is 0 and no similarity is
\* computed, whatever the required list.
C16_EmptyResumeSkills ==
    (Analyzed /\ resume_skills = <<>>) =>
        /\ gap_results.missing_skills = required_skills
        /\ gap_results.strong_matches = <<>>
        /\ gap_results.weak_matches = <<>>
        /\ FracEq(gap_results.match_percentage, Whole(0))
        /\ similarity_calls = 0

\* No resume skill, two required skills, scikit-learn present.
C16_Witness ==
    /\ Analyzed
    /\ SKLEARN_AVAILABLE
    /\ resume_skills = <<>>
    /\ Len(required_skills) = 2
    /\ gap_results.missing_skills = required_skills

\* C17 as stated: the numbers of strong, weak and missing skills add up to the
\* number of required skills, and match_percentage lies in [0,100] and is
\* 100 x (strong + 0.5 x weak) / required_count, or 0 when there is none.
C17_ExactPercentageOfAllRequired ==
    Analyzed =>
        LET strong == Len(gap_results.strong_matches)
            weak == Len(gap_results.weak_matches)
            required_count == Len(required_skills)
        IN  /\ strong + weak + Len(gap_results.missing_skills) = required_count
            /\ ~FracLess(gap_results.match_percentage, Whole(0))
            /\ ~FracLess(Whole(100), gap_results.match_percentage)
            /\ FracEq(gap_results.match_percentage,
                      IF required_count > 0
                      THEN Frac((2 * strong + weak) * 50, required_count)
                      ELSE Whole(0))

\* C17 as amended: with an empty resume_skills all required skills are missing
\* and the percentage is 0; otherwise the required skills that are not blank are
\* each in exactly one of strong, weak and missing (blank ones are dropped), and
\* match_percentage lies in [0,100] and is 100 x (strong + 0.5 x weak) / count
\* rounded to two decimals, count being the number of non-blank required skills,
\* or 0 when count is 0.
C17_Classification ==
    Analyzed =>
        LET strong == Len(gap_results.strong_matches)
            weak == Len(gap_results.weak_matches)
            kept == IF resume_skills = <<>> THEN required_skills
                    ELSE NonBlank(required_skills)
            names == IF resume_skills = <<>> THEN kept
                     ELSE [i \in 1..Len(kept) |-> Normalize(kept[i])]
            count == Len(kept)
            exact == Frac((2 * strong + weak) * 50 * 100, IF count > 0 THEN count ELSE 1)
            distance == gap_results.match_percentage.num * exact.den - exact.num
        IN  /\ strong + weak + Len(gap_results.missing_skills) = count
            /\ \A i \in 1..count :
                   /\ Occurrences(gap_results.strong_matches, names[i])
                          + Occurrences(WeakSkills, names[i])
                          + Occurrences(gap_results.missing_skills, names[i])
                      = Occurrences(names, names[i])
                   /\ Cardinality({c \in {"strong", "weak", "missing"} :
                          names[i] \in Elements(
                              CASE c = "strong" -> gap_results.strong_matches
                                [] c = "weak" -> WeakSkills
                                [] c = "missing" -> gap_results.missing_skills)}) = 1
            /\ ~FracLess(gap_results.match_percentage, Whole(0))
            /\ ~FracLess(Whole(100), gap_results.match_percentage)
            /\ IF resume_skills = <<>>
               THEN FracEq(gap_results.match_percentage, Whole(0))
               ELSE /\ gap_results.match_percentage.den = 100
                    /\ 2 * distance <= exact.den
                    /\ -2 * distance <= exact.den

\* Three required skills and a blank one dropped: one strong match of three is
\* reported as 33.33.
C17_Witness ==
    /\ Analyzed
    /\ Len(required_skills) = 3
    /\ Len(gap_results.strong_matches) = 1
    /\ Len(gap_results.weak_matches) = 0
    /\ Len(gap_results.missing_skills) = 2
    /\ gap_results.match_percentage = Frac(3333, 100)

\* C18: every skill string of a result (strong matches, skill and matched_with of
\* weak matches, missing skills) is lowercased and trimmed, on every path.
C18_ResultsNormalized ==
    Analyzed =>
        /\ \A i \in 1..Len(gap_results.strong_matches) :
               gap_results.strong_matches[i] = Normalize(gap_results.strong_matches[i])
        /\ \A i \in 1..Len(gap_results.weak_matches) :
               /\ gap_results.weak_matches[i].skill
                      = Normalize(gap_results.weak_matches[i].skill)
               /\ gap_results.weak_matches[i].matched_with
                      = Normalize(gap_results.weak_matches[i].matched_with)
        /\ \A i \in 1..Len(gap_results.missing_skills) :
               gap_results.missing_skills[i] = Normalize(gap_results.missing_skills[i])

C27_SimilarityClassification ==
    (Analyzed /\ similarity_lists # <<>>) =>
        LET required_norm == NormalizeAll(required_skills)
            resume_norm == NormalizeAll(resume_skills)
            M(i) == Max(similarity_lists[i])
            Where(P(_)) == SelectSeq([i \in 1..Len(required_norm) |-> i], P)
            strong == Where(LAMBDA i : M(i) >= 900)
            weak == Where(LAMBDA i : 400 <= M(i) /\ M(i) < 900)
            missing == Where(LAMBDA i : M(i) < 400)
            First(i) == CHOOSE j \in 1..Len(resume_norm) :
                            /\ similarity_lists[i][j] = M(i)
                            /\ \A k \in 1..(j - 1) : similarity_lists[i][k] < M(i)
        IN  /\ gap_results.strong_matches
                   = [n \in 1..Len(strong) |-> required_norm[strong[n]]]
            /\ gap_results.missing_skills
                   = [n \in 1..Len(missing) |-> required_norm[missing[n]]]
            /\ Len(gap_results.weak_matches) = Len(weak)
            /\ \A n \in 1..Len(weak) :
                   LET match == gap_results.weak_matches[n] IN
                   /\ match.skill = required_norm[weak[n]]
                   /\ match.matched_with = resume_norm[First(weak[n])]
                   /\ match.similarity.den = 100
                   /\ (10 * match.similarity.num - M(weak[n])) \in -5..5

\* Similarities exactly 0.9 and exactly 0.4 in one call: React is a strong match
\* of React.js, PostgreSQL a weak match of SQL recorded with 0.4.
C27_Witness ==
    /\ Analyzed
    /\ resume_skills = <<"React.js", "SQL">>
    /\ required_skills = <<"React", "PostgreSQL">>
    /\ similarity_lists = << <<900, 0>>, <<399, 400>> >>
    /\ gap_results.strong_matches = <<"react">>
    /\ gap_results.weak_matches
           = <<[skill |-> "postgresql", matched_with |-> "sql", similarity |-> Frac(40, 100)]>>

-----------------------------------------------------------------------------
(* The recommender (recommender.py) *)

MaxMissing == 3    \* most missing skills given to the recommender in SpecRecommender

\* lines 17-76: self.project_templates, in the order of the dictionary
project_templates ==
    << [key |-> "python",
        projects |->
            << [title |-> "Automated Trading Bot",
                description |-> "Build a bot that trades stocks or crypto based on technical indicators.",
                tech_stack |-> <<"Python", "Pandas", "Alpaca API">>,
                difficulty |-> "Intermediate"],
               [title |-> "RESTful API with Flask/FastAPI",
                description |-> "Design and build a scalable backend for a blog or e-commerce site.",
                tech_stack |-> <<"Python", "Flask", "PostgreSQL">>,
                difficulty |-> "Beginner"] >>],
       [key |-> "react",
        projects |->
            << [title |-> "Interactive Dashboard",
                description |-> "Create a data visualization dashboard with real-time updates.",
                tech_stack |-> <<"React", "Recharts", "Tailwind CSS">>,
                difficulty |-> "Intermediate"] >>],
       [key |-> "machine learning",
        projects |->
            << [title |-> "Sentiment Analysis Tool",
                description |-> "Analyze Twitter or Reddit sentiment for a specific topic.",
                tech_stack |-> <<"Python", "Scikit-learn", "NLTK">>,
                difficulty |-> "Intermediate"] >>],
       [key |-> "docker",
        projects |->
            << [title |-> "Microservices Orchestration",
                description |-> "Containerize an application and deploy with Docker Compose.",
                tech_stack |-> <<"Docker", "Nginx", "Redis">>,
                difficulty |-> "Advanced"] >>] >>

\* lines 103-107
general_tips ==
    <<"Quantify your achievements using metrics (e.g., 'Increased performance by 20%').",
      "Tailor your summary to specifically mention the target role.",
      "Ensure your contact information is up to date and professional.">>

\* line 90: key in skill_lower or skill_lower in key
KeyMatches(key, skill_lower) == IsSubstring(key, skill_lower) \/ IsSubstring(skill_lower, key)

\* The same loop without the seen_projects test of line 93.
AppendAll(recommendations, projects) == recommendations \o projects

\* lines 91-95: the projects of one list whose title was not seen, appended in
\* order, each title seen from then on.
RECURSIVE AppendUnseen(_, _)
AppendUnseen(recommendations, projects) ==
    IF projects = <<>> THEN recommendations
    ELSE AppendUnseen(
             IF \E i \in DOMAIN recommendations :
                    recommendations[i].title = projects[1].title
             THEN recommendations
             ELSE Append(recommendations, projects[1]),
             Tail(projects))

\* lines 89-95: the templates in order, for one missing skill
RECURSIVE ForEachTemplate(_, _, _)
ForEachTemplate(recommendations, skill_lower, templates) ==
    IF templates = <<>> THEN recommendations
    ELSE ForEachTemplate(
             IF KeyMatches(templates[1].key, skill_lower)
             THEN AppendUnseen(recommendations, templates[1].projects)
             ELSE recommendations,
             skill_lower, Tail(templates))

\* lines 86-95: the missing skills in order
RECURSIVE ForEachMissing(_, _)
ForEachMissing(recommendations, missing) ==
    IF missing = <<>> THEN recommendations
    ELSE ForEachMissing(
             ForEachTemplate(recommendations, Lower(missing[1]), project_templates),
             Tail(missing))

\* line 98: self.project_templates.get("python", [])[:2]
PythonDefaults ==
    LET i == CHOOSE i \in DOMAIN project_templates : project_templates[i].key = "python"
    IN  Take(project_templates[i].projects, 2)

\* lines 78-108
generate_recommendations(missing, role) ==
    LET recommendations == ForEachMissing(<<>>, missing)
        filled == IF recommendations = <<>> THEN PythonDefaults ELSE recommendations
    IN  [target_role |-> role,
         recommended_projects |-> Take(filled, 3),
         general_tips |-> general_tips]

-----------------------------------------------------------------------------
(* generate_recommendations applied to one list of missing skills *)

\* Missing skills as the matcher hands them over: normalised skills, and the raw
\* required skills (any case, possibly blank or empty) when the resume has none.
MissingSkillPool == {"Docker", "React.js", "learning", "python", "Kubernetes", " ", ""}

RECURSIVE ListsUpTo(_, _)
ListsUpTo(pool, n) ==
    IF n = 0 THEN {<<>>}
    ELSE LET shorter == ListsUpTo(pool, n - 1)
         IN  shorter \cup {Append(l, x) : l \in shorter, x \in pool}

TargetRoles == {"DevOps Engineer", "Data Scientist"}

InitRecommender ==
    /\ VECTOR_SEARCH_AVAILABLE = FALSE
    /\ model = "unset"
    /\ index = NoIndex
    /\ roles_metadata = <<>>
    /\ fsIndex = Absent
    /\ fsMeta = Absent
    /\ alive = TRUE
    /\ boot = "first"
    /\ lastOp = "construct"
    /\ fault = "none"
    /\ outcome = "returned"
    /\ result = <<>>
    /\ pc = <<>>
    /\ local = <<>>
    /\ ParserOff
    /\ ScorerOff
    /\ GapOff
    /\ request = <<>>
    /\ retriever_calls = 0
    /\ called = "input"
    /\ response = <<>>
    /\ llm = "None"
    /\ missing_skills \in ListsUpTo(MissingSkillPool, MaxMissing)
    /\ target_role \in TargetRoles
    /\ rec_results = <<>>
    /\ job_requirements = <<>>
    /\ llm_reply = [kind |-> "none"]
    /\ llm_results = <<>>
    /\ UploadOff

GenerateRecommendationsCall ==
    /\ called = "input"
    /\ called' = "generate_recommendations"
    /\ rec_results' = generate_recommendations(missing_skills, target_role)
    /\ UNCHANGED <<storeVars, seqVars, concVars, parserVars, scorerVars, gapVars,
                   request, retriever_calls, response,
                   llm, missing_skills, target_role, job_requirements, llm_reply, llm_results,
                   uploadVars>>

NextRecommender == GenerateRecommendationsCall

SpecRecommender == InitRecommender /\ [][NextRecommender]_vars

-----------------------------------------------------------------------------
(* Claims about the recommender *)

Recommended == called = "generate_recommendations"

\* The position of a project in the templates: the template's place, then
\* the project's place in the template.
TemplatePlaces ==
    {place \in (DOMAIN project_templates) \X (1..2) :
         place[2] \in DOMAIN project_templates[place[1]].projects}

ProjectAt(place) == project_templates[place[1]].projects[place[2]]

\* The first missing skill whose lowercased form contains, or is contained in,
\* the key of the template; 0 when there is none.
FirstSkillFor(k) ==
    LET hits == {i \in DOMAIN missing_skills :
                     LET skill == Lower(missing_skills[i])
                         key == project_templates[k].key
                     IN  IsSubstring(key, skill) \/ IsSubstring(skill, key)}
    IN  IF hits = {} THEN 0 ELSE CHOOSE i \in hits : \A j \in hits : i <= j

MatchedPlaces == {place \in TemplatePlaces : FirstSkillFor(place[1]) # 0}

\* A project comes before another when its template is first matched by an
\* earlier missing skill, or by the same skill and it stands earlier in the
\* templates.
Precedes(p, q) ==
    \/ FirstSkillFor(p[1]) < FirstSkillFor(q[1])
    \/ FirstSkillFor(p[1]) = FirstSkillFor(q[1]) /\ (p[1] < q[1] \/ (p[1] = q[1] /\ p[2] < q[2]))

\* C24: generate_recommendations returns a non-empty recommended_projects list of
\* at most three projects with pairwise distinct titles.  The list consists of
\* the projects of every template whose key contains, or is contained in, a
\* lowercased missing skill, in the order of the missing skills; when no template
\* matches it is the first two "python" templates.  general_tips is always
\* present.
C24_Recommendations ==
    Recommended =>
        LET recs == rec_results.recommended_projects
            n == Cardinality(MatchedPlaces)
        IN  /\ recs # <<>>
            /\ Len(recs) <= 3
            /\ \A i, j \in DOMAIN recs : recs[i].title = recs[j].title => i = j
            /\ "general_tips" \in DOMAIN rec_results
            /\ rec_results.general_tips = general_tips
            /\ rec_results.target_role = target_role
            /\ n = 0 =>
                   recs = <<project_templates[1].projects[1], project_templates[1].projects[2]>>
            /\ n > 0 =>
                   /\ Len(recs) = IF n < 3 THEN n ELSE 3
                   /\ \A i \in DOMAIN recs :
                          \E p \in MatchedPlaces :
                              /\ recs[i] = ProjectAt(p)
                              /\ Cardinality({q \in MatchedPlaces : Precedes(q, p)}) = i - 1

\* "React.js" contains the key "react", "learning" is contained in the key
\* "machine learning" and "python" is a key with two projects: four projects
\* match and the first three are returned, in the order of the skills.
C24_Witness ==
    /\ Recommended
    /\ missing_skills = <<"React.js", "learning", "python">>
    /\ Len(rec_results.recommended_projects) = 3
    /\ rec_results.recommended_projects[1].title = "Interactive Dashboard"
    /\ rec_results.recommended_projects[2].title = "Sentiment Analysis Tool"
    /\ rec_results.recommended_projects[3].title = "Automated Trading Bot"

-----------------------------------------------------------------------------
(* The insight generator (llm_agent.py) *)

\* An element of an argument with its Python type.
Str(s) == [str |-> s]
Num(n) == [num |-> n]
IsStr(v) == "str" \in DOMAIN v
Typed(strings) == [i \in DOMAIN strings |-> Str(strings[i])]

\* What self.llm.invoke did: it was not called, it raised, or it returned a
\* message with this content.
NoReply == [kind |-> "none"]
InvokeRaised == [kind |-> "raised"]
Content(items) == [kind |-> "content", content |-> items]

\* Items of a reply: the two markdown fences (three backquotes, written [fence]
\* here, with and without "json" after them), a JSON document and prose.
JsonFence == "[fence]json"
Fence == "[fence]"
ReplyDocument == "{\"ats_score\": {\"score\": 85}, \"missing_skills\": [\"Rust\"]}"
ReplyValue == [ats_score |-> [score |-> 85], missing_skills |-> <<"Rust">>]

\* The first item of the sequence that is in the set, 0 when there is none.
FirstIn(items, set) ==
    LET hits == {i \in DOMAIN items : items[i] \in set}
    IN  IF hits = {} THEN 0 ELSE CHOOSE i \in hits : \A j \in hits : i <= j

\* s.split(sep)[1] and s.split(sep)[0], sep being the item at i (0: not found)
AfterItem(items, i) == SubSeq(items, i + 1, Len(items))
BeforeItem(items, i) == IF i = 0 THEN items ELSE SubSeq(items, 1, i - 1)

\* lines 92-96.  The text of JsonFence begins with that of Fence, so the split at
\* Fence of line 94 also stops at a second JsonFence.
CleanUp(content) ==
    IF FirstIn(content, {JsonFence}) # 0
    THEN LET rest == AfterItem(content, FirstIn(content, {JsonFence}))
         IN  Strip(BeforeItem(rest, FirstIn(rest, {JsonFence, Fence})))
    ELSE IF FirstIn(content, {Fence}) # 0
    THEN LET rest == AfterItem(content, FirstIn(content, {Fence}))
         IN  Strip(BeforeItem(rest, FirstIn(rest, {Fence})))
    ELSE content

\* line 98, json.loads: the value of the document, None when it raises.  White
\* space around the document is allowed.
JsonLoads(content) ==
    IF Strip(content) = <<ReplyDocument>> THEN Some(ReplyValue) ELSE None

\* lines 134-159
_mock_analysis(role) ==
    [ats_score |->
         [score |-> 75,
          explanation |-> "Mock Score: Good keyword density but missing some advanced terms."],
     missing_skills |-> <<"Advanced Pattern Matching", "System Design", "Cloud Native">>,
     project_recommendations |->
         << [title |-> <<"Advanced", SP, role, SP, "System">>,
             tech_stack |-> <<"Relevant Tech 1", "Relevant Tech 2">>,
             impact |-> "Build a scalable system to demonstrate architecture skills."] >>,
     learning_roadmap |->
         <<"Month 1: Master fundamentals and missing skills.",
           "Month 2: Build a capstone project.",
           "Month 3: Mock interviews and system design.">>,
     resume_improvements |->
         <<"Quantify your bullet points more.",
           "Add a summary section specific to this role.">>]

Returned(value) == [outcome |-> "returned", value |-> value]
Raised == [outcome |-> "raised", value |-> <<>>]

\* line 77: ', '.join(job_requirements) raises TypeError on an element that is
\* not a string.  The prompt is built before the try of line 83.
JoinRaises(requirements) == \E i \in DOMAIN requirements : ~IsStr(requirements[i])

\* Whether the call reaches self.llm.invoke (line 89).
Invokes(llm_, requirements) == llm_ # "None" /\ ~JoinRaises(requirements)

\* lines 83-98 without the except clause of lines 99-101
AnalyzeResumeUnguarded(llm_, role, requirements, reply) ==
    IF llm_ = "None" THEN Returned(_mock_analysis(role))
    ELSE IF JoinRaises(requirements) \/ reply.kind = "raised" THEN Raised
    ELSE LET parsed == JsonLoads(CleanUp(reply.content))
         IN  IF parsed = None THEN Raised ELSE Returned(parsed[1])

\* lines 37-101, reply being what self.llm.invoke does when it is reached
LLMAgent_analyze_resume(llm_, role, requirements, reply) ==
    IF llm_ = "None" THEN Returned(_mock_analysis(role))
    ELSE IF JoinRaises(requirements) THEN Raised
    ELSE IF reply.kind = "raised" THEN Returned(_mock_analysis(role))
    ELSE LET parsed == JsonLoads(CleanUp(reply.content))
         IN  IF parsed = None THEN Returned(_mock_analysis(role)) ELSE Returned(parsed[1])

\* lines 108 and 132
OfflineMessage ==
    <<"I am currently in offline mode. Please configure my OpenAI API key to enable chat.">>
TroubleMessage == <<"I'm having trouble thinking right now. Please try again later.">>

\* lines 103-132.  The message and the context go into the prompt only.
chat_with_mentor(llm_, message, context, reply) ==
    IF llm_ = "None" THEN Returned(OfflineMessage)
    ELSE IF reply.kind = "raised" THEN Returned(TroubleMessage)
    ELSE Returned(reply.content)

-----------------------------------------------------------------------------
(* The agent's two calls, applied to bounded arguments and replies *)

Replies ==
    { InvokeRaised,
      Content(<<ReplyDocument>>),
      Content(<<JsonFence, NL, ReplyDocument, NL, Fence>>),
      Content(<<Fence, NL, ReplyDocument, NL, Fence>>),
      Content(<<"Here is the analysis:", NL, JsonFence, NL, ReplyDocument, NL, Fence, NL,
                "Good luck!">>),
      Content(<<ReplyDocument, NL, JsonFence>>),
      Content(<<"I cannot help with that.">>),
      Content(<<>>) }

JobRequirementLists ==
    {<<>>, Typed(<<"Docker", "AWS">>), <<Num(1)>>, <<Str("Docker"), Num(1)>>}

Messages == {"How do I learn Docker?", ""}
Contexts == {"None", "Skills: Python"}

InitLLM ==
    /\ VECTOR_SEARCH_AVAILABLE = FALSE
    /\ model = "unset"
    /\ index = NoIndex
    /\ roles_metadata = <<>>
    /\ fsIndex = Absent
    /\ fsMeta = Absent
    /\ alive = TRUE
    /\ boot = "first"
    /\ lastOp = "construct"
    /\ fault = "none"
    /\ outcome = "returned"
    /\ result = <<>>
    /\ pc = <<>>
    /\ local = <<>>
    /\ ParserOff
    /\ ScorerOff
    /\ GapOff
    /\ request = <<>>
    /\ retriever_calls = 0
    /\ called = "input"
    /\ response = <<>>
    /\ llm \in {"None", "ChatOpenAI"}
    /\ missing_skills = <<>>
    /\ target_role \in TargetRoles
    /\ rec_results = <<>>
    /\ job_requirements \in JobRequirementLists
    /\ llm_reply = NoReply
    /\ llm_results = <<>>
    /\ UploadOff

AnalyzeResumeCall ==
    /\ called = "input"
    /\ called' = "LLMAgent.analyze_resume"
    /\ \E reply \in IF Invokes(llm, job_requirements) THEN Replies ELSE {NoReply} :
           LET ret == LLMAgent_analyze_resume(llm, target_role, job_requirements, reply)
           IN  /\ llm_reply' = reply
               /\ outcome' = ret.outcome
               /\ llm_results' = ret.value
    /\ UNCHANGED <<storeVars, alive, boot, lastOp, fault, result, concVars, parserVars,
                   scorerVars, gapVars, request, retriever_calls, response,
                   llm, missing_skills, target_role, rec_results, job_requirements,
                   uploadVars>>

ChatWithMentorCall ==
    /\ called = "input"
    /\ called' = "chat_with_mentor"
    /\ \E message \in Messages, context \in Contexts,
          reply \in IF llm # "None" THEN Replies ELSE {NoReply} :
           LET ret == chat_with_mentor(llm, message, context, reply)
           IN  /\ request' = [message |-> message, context |-> context]
               /\ llm_reply' = reply
               /\ outcome' = ret.outcome
               /\ llm_results' = ret.value
    /\ UNCHANGED <<storeVars, alive, boot, lastOp, fault, result, concVars, parserVars,
                   scorerVars, gapVars, retriever_calls, response,
                   llm, missing_skills, target_role, rec_results, job_requirements,
                   uploadVars>>

NextLLM == AnalyzeResumeCall \/ ChatWithMentorCall

SpecLLM == InitLLM /\ [][NextLLM]_vars

-----------------------------------------------------------------------------
(* Claims about the insight generator *)

Analyzed_LLM == called = "LLMAgent.analyze_resume"
Chatted == called = "chat_with_mentor"

\* The fallback applies: no LLM is configured, the LLM call raised, or its reply
\* does not parse as JSON once a markdown fence around it is removed.
FallbackCase ==
    \/ llm = "None"
    \/ llm_reply.kind = "raised"
    \/ llm_reply.kind = "content" /\ JsonLoads(CleanUp(llm_reply.content)) = None

\* What the claim says the two calls return.
ReturnsAsClaimed ==
    /\ outcome = "returned"
    /\ Analyzed_LLM =>
           IF FallbackCase
           THEN /\ llm_results = _mock_analysis(target_role)
                /\ llm_results.ats_score.score = 75
                /\ llm_results.project_recommendations[1].title
                       = <<"Advanced", SP, target_role, SP, "System">>
           ELSE llm_results = ReplyValue
    /\ (Chatted /\ llm = "None") => llm_results = OfflineMessage

-----------------------------------------------------------------------------
(* main.py: the /api/analyze handler *)

\* The items of the role strings of the store.
Items(s) ==
    CASE s = "DevOps Engineer" -> <<"DevOps", SP, "Engineer">>
      [] s = "Infra as code." -> <<"Infra", SP, "as", SP, "code", ".">>
      [] s = "Data Scientist" -> <<"Data", SP, "Scientist">>
      [] s = "Analyze data." -> <<"Analyze", SP, "data", ".">>
      [] OTHER -> <<s>>

\* line 101: f"{title} {description} {' '.join(skills)}"
PseudoJobDescription(found_role) ==
    Items(found_role.title) \o <<SP>> \o Items(found_role.description) \o <<SP>>
        \o Spaced(Get(found_role, "skills", <<>>))

\* line 105
FallbackSkills == <<"Python", "JavaScript", "SQL", "Git">>

\* text.split(',')
RECURSIVE Split(_, _)
Split(items, piece) ==
    IF items = <<>> THEN <<piece>>
    ELSE IF items[1] = "," THEN <<piece>> \o Split(Tail(items), <<>>)
    ELSE Split(Tail(items), Append(piece, items[1]))

\* lines 118-119: [s.strip() for s in resume_skills_text.split(',') if s.strip()]
ResumeSkillsList(resume) ==
    LET pieces == Split(Get(resume.sections, "skills", <<>>), <<>>)
        kept == SelectSeq(pieces, LAMBDA piece : Strip(piece) # <<>>)
    IN  [i \in 1..Len(kept) |-> Render(Strip(kept[i]))]

\* line 86: not data or 'resume_data' not in data or 'target_role' not in data
MissingFields(data) ==
    data = <<>> \/ "resume_data" \notin DOMAIN data \/ "target_role" \notin DOMAIN data

AlwaysConsultsRetriever(supplied) == TRUE

\* line 96: not job_description and vector_store; the VectorStore object made by
\* create_app is always true.
ConsultsRetriever(supplied) == supplied = <<>>

\* search_similar_roles(target_role, k=1) on a store as __init__ leaves it: the
\* index is set only when the model is loaded, so the call does not raise.
SearchSimilarRoles(query, k) ==
    IF SearchGuard(VECTOR_SEARCH_AVAILABLE, index) THEN <<>>
    ELSE LET labels == Labels(index.vectors, Encode(query), k)
         IN  Collect(roles_metadata, labels,
                     Distances(index.vectors, Encode(query), labels)).results

\* lines 93-110: the target text and the required skills of the request
JobRequirements(supplied, roles, nltk, order) ==
    IF ConsultsRetriever(supplied)
    THEN IF roles # <<>>
         THEN [job_description |-> PseudoJobDescription(roles[1]),
               required_skills |-> Get(roles[1], "skills", <<>>),
               consulted |-> TRUE]
         ELSE [job_description |-> supplied,
               required_skills |-> FallbackSkills,
               consulted |-> TRUE]
    ELSE [job_description |-> supplied,
          required_skills |-> List(_extract_keywords(supplied, nltk), order),
          consulted |-> FALSE]

\* line 142: job_description[:200] + "..." if job_description else "Generic"; the
\* texts here are shorter than 200 characters.
DescriptionUsed(jd) == IF jd = <<>> THEN "Generic" ELSE Render(jd) \o "..."

\* The request bodies: any of the three keys may be missing.
FlowResumes ==
    {[raw_text |-> Spaced(<<"Just", "some", "text">>),
      sections |-> SectionsOf([skills |-> sk])] : sk \in SkillsChoices}
        \cup {[sections |-> SectionsOf([skills |-> Some(<<"Docker">>)])]}
FlowJobDescriptions ==
    {<<>>, <<SP>>, Spaced(<<"This", "and", "that">>), Spaced(<<"Python", "and", "Docker">>)}
Body(resume, role, jd) ==
    [k \in {key \in {"resume_data", "target_role", "job_description"} :
                CASE key = "resume_data" -> resume # None
                  [] key = "target_role" -> role # None
                  [] key = "job_description" -> jd # None} |->
        CASE k = "resume_data" -> resume[1]
          [] k = "target_role" -> role[1]
          [] k = "job_description" -> jd[1]]
Requests ==
    {Body(resume, role, jd) :
        resume \in {None} \cup {Some(r) : r \in FlowResumes},
        role \in {None} \cup {Some(q) : q \in Queries},
        jd \in {None} \cup {Some(d) : d \in FlowJobDescriptions}}

\* A response body without the insights.
PayloadWithoutInsights(ats, gap, rec, insights, role, jd) ==
    [status |-> 200,
     ats_analysis |-> ats,
     skill_gap |-> gap,
     recommendations |-> rec,
     target_role_data |-> [role |-> role, description_used |-> DescriptionUsed(jd)]]

\* A response body in which the score of the insights replaces the scorer's.
PayloadPreferringInsights(ats, gap, rec, insights, role, jd) ==
    [status |-> 200,
     ats_analysis |-> insights.ats_score,
     skill_gap |-> gap,
     recommendations |-> rec,
     llm_insights |-> insights,
     target_role_data |-> [role |-> role, description_used |-> DescriptionUsed(jd)]]

\* lines 134-145: the response body
response_payload(ats, gap, rec, insights, role, jd) ==
    [status |-> 200,
     ats_analysis |-> ats,
     skill_gap |-> gap,
     recommendations |-> rec,
     llm_insights |-> insights,
     target_role_data |-> [role |-> role, description_used |-> DescriptionUsed(jd)]]

\* lines 147-149
ErrorResponse == [status |-> 500]

\* analyze_resume, from the request body to the response or, where an LLM is
\* configured, to the call of self.llm.invoke (llm_agent.py:89), which is the one
\* step of the handler that waits for something outside the process.  The
\* variables of the scorer, the matcher, the recommender and the agent hold the
\* handler's locals for this request (empty when it answers 400) and result holds
\* its roles.  The handler keeps nothing from one request to the next and leaves
\* the store as it is, so a behaviour handles one request.
analyze_resume(data) ==
    /\ called = "input"
    /\ request' = data
    /\ UNCHANGED <<storeVars, alive, boot, lastOp, fault, outcome, concVars, parserVars,
                   nltk_available, hash_order, SKLEARN_AVAILABLE, llm, llm_reply,
                   uploadVars>>
    /\ IF MissingFields(data)
       THEN /\ called' = "analyze_resume"
            /\ response' = [status |-> 400]
            /\ retriever_calls' = 0
            /\ result' = <<>>
            /\ resume_data' = <<>>
            /\ job_description' = <<>>
            /\ ats_results' = <<>>
            /\ resume_skills' = <<>>
            /\ required_skills' = <<>>
            /\ similarity_calls' = 0
            /\ similarity_lists' = <<>>
            /\ gap_results' = <<>>
            /\ UNCHANGED <<missing_skills, target_role, rec_results, job_requirements,
                           llm_results>>
       ELSE LET supplied == Get(data, "job_description", <<>>)
                roles == SearchSimilarRoles(data["target_role"], 1)
                target == JobRequirements(supplied, roles, nltk_available, hash_order)
                resume_skills_list == ResumeSkillsList(data["resume_data"])
            IN  /\ retriever_calls' = IF target.consulted THEN 1 ELSE 0
                /\ result' = IF target.consulted THEN roles ELSE <<>>
                /\ resume_data' = data["resume_data"]
                /\ target_role' = data["target_role"]
                /\ job_description' = target.job_description
                /\ ats_results' = calculate_score(data["resume_data"], target.job_description,
                                                  nltk_available, hash_order)
                /\ resume_skills' = resume_skills_list
                /\ required_skills' = target.required_skills
                /\ \E sim \in [OpenPairs(resume_skills_list, target.required_skills,
                                         SKLEARN_AVAILABLE) -> SimValues],
                      failing \in {{}, OpenTargets(resume_skills_list,
                                         target.required_skills, SKLEARN_AVAILABLE)} :
                        /\ gap_results' = analyze(resume_skills_list,
                                               target.required_skills, SKLEARN_AVAILABLE,
                                               sim, failing)
                        /\ similarity_lists' = Similarities(resume_skills_list,
                                               target.required_skills, SKLEARN_AVAILABLE,
                                               sim, failing)
                /\ similarity_calls' = SimilarityCalls(resume_skills_list,
                                            target.required_skills, SKLEARN_AVAILABLE)
                /\ missing_skills' = gap_results'.missing_skills
                /\ rec_results' = generate_recommendations(gap_results'.missing_skills,
                                                           data["target_role"])
                /\ job_requirements' = Typed(target.required_skills)
                /\ IF Invokes(llm, Typed(target.required_skills))
                   THEN /\ called' = "llm.invoke"
                        /\ llm_results' = <<>>
                        /\ response' = <<>>
                   ELSE LET ret == LLMAgent_analyze_resume(llm, data["target_role"],
                                       Typed(target.required_skills), NoReply)
                        IN  /\ called' = "analyze_resume"
                            /\ llm_results' = ret.value
                            /\ response' =
                                   IF ret.outcome = "raised" THEN ErrorResponse
                                   ELSE response_payload(ats_results', gap_results',
                                            rec_results', ret.value, data["target_role"],
                                            target.job_description)

\* What the LLM does in a request: it fails, it replies with the document, it
\* replies with prose.
FlowReplies ==
    {InvokeRaised, Content(<<ReplyDocument>>), Content(<<"I cannot help with that.">>)}

\* self.llm.invoke ends, by a reply or by an exception, and the handler runs to
\* its response: the rest of LLMAgent.analyze_resume and lines 134-145.
LLMInvokeEnds(reply) ==
    /\ called = "llm.invoke"
    /\ called' = "analyze_resume"
    /\ llm_reply' = reply
    /\ LET ret == LLMAgent_analyze_resume(llm, target_role, job_requirements, reply)
       IN  /\ llm_results' = ret.value
           /\ response' = IF ret.outcome = "raised" THEN ErrorResponse
                          ELSE response_payload(ats_results, gap_results, rec_results,
                                   ret.value, target_role, job_description)
    /\ UNCHANGED <<storeVars, seqVars, concVars, parserVars, scorerVars, gapVars,
                   request, retriever_calls,
                   llm, missing_skills, target_role, rec_results, job_requirements,
                   uploadVars>>

\* The process after create_app: a VectorStore constructed over no snapshot or,
\* where the model loads, over the snapshot of some stored roles, and no request
\* handled yet.
InitAnalyze ==
    /\ VECTOR_SEARCH_AVAILABLE \in BOOLEAN
    /\ model \in {"unset", "None", "loaded"}
    /\ VECTOR_SEARCH_AVAILABLE = (model # "unset")
    /\ \E roles \in Batches :
           /\ fsIndex \in {Absent} \cup
                  (IF model = "loaded" THEN {File(Index(EncodeAll(roles)))} ELSE {})
           /\ fsMeta = IF fsIndex = Absent THEN Absent ELSE File(roles)
    /\ index = IF model = "loaded" THEN LoadIndex(fsIndex, fsMeta).index ELSE NoIndex
    /\ roles_metadata =
           IF model = "loaded" THEN LoadIndex(fsIndex, fsMeta).roles_metadata ELSE <<>>
    /\ alive = TRUE
    /\ boot = "first"
    /\ lastOp = "construct"
    /\ fault = "none"
    /\ outcome = "returned"
    /\ result = <<>>
    /\ pc = <<>>
    /\ local = <<>>
    /\ ParserOff
    /\ nltk_available \in BOOLEAN
    /\ hash_order \in {"ascending", "descending"}
    /\ resume_data = <<>>
    /\ job_description = <<>>
    /\ ats_results = <<>>
    /\ SKLEARN_AVAILABLE \in BOOLEAN
    /\ resume_skills = <<>>
    /\ required_skills = <<>>
    /\ similarity_calls = 0
    /\ similarity_lists = <<>>
    /\ gap_results = <<>>
    /\ request = <<>>
    /\ retriever_calls = 0
    /\ called = "input"
    /\ response = <<>>
    /\ llm \in {"None", "ChatOpenAI"}
    /\ missing_skills = <<>>
    /\ target_role = ""
    /\ rec_results = <<>>
    /\ job_requirements = <<>>
    /\ llm_reply = NoReply
    /\ llm_results = <<>>
    /\ UploadOff

NextAnalyze ==
    \/ \E data \in Requests : analyze_resume(data)
    \/ \E reply \in FlowReplies : LLMInvokeEnds(reply)

SpecAnalyze == InitAnalyze /\ [][NextAnalyze]_vars

-----------------------------------------------------------------------------
(* Claims about the /api/analyze flow *)

Answered == called = "analyze_resume" /\ response.status = 200
Supplied == Get(request, "job_description", <<>>)

\* The result is what analyze returns for the given lists under some outcome of
\* the similarity computation.
AnalyzeOutcome(gap, resume, required) ==
    \E sim \in [OpenPairs(resume, required, SKLEARN_AVAILABLE) -> SimValues],
       failing \in SUBSET OpenTargets(resume, required, SKLEARN_AVAILABLE) :
        gap = analyze(resume, required, SKLEARN_AVAILABLE, sim, failing)

\* C20: in the analyze flow the retriever is consulted exactly when the supplied
\* job description is empty.  When it returns a role, the target text is that
\* role's title, description and skills joined by blanks and the required skills
\* are the role's skill list; when a job description is supplied, the retriever is
\* not called and the required skills are the keywords of that description.  In
\* both cases the scorer's result is calculate_score of the resume and the
\* resolved text, and the matcher's result is analyze of the resume's skills and
\* the resolved required skills: neither depends on the other's output.
C20_TargetResolution ==
    Answered =>
        /\ (retriever_calls = 1) <=> (Supplied = <<>>)
        /\ retriever_calls \in {0, 1}
        /\ (Supplied = <<>> /\ result # <<>>) =>
               /\ Render(job_description) = RoleText(result[1])
               /\ required_skills = result[1].skills
        /\ Supplied # <<>> =>
               /\ job_description = Supplied
               /\ Elements(required_skills) = _extract_keywords(Supplied, nltk_available)
               /\ NoDuplicates(required_skills)
        /\ (Supplied # <<>> \/ result # <<>>) =>
               /\ resume_data = request["resume_data"]
               /\ ats_results = calculate_score(resume_data, job_description,
                                                nltk_available, hash_order)
               /\ resume_skills = ResumeSkillsList(resume_data)
               /\ AnalyzeOutcome(gap_results, resume_skills, required_skills)

\* No job description, and the store returns the DevOps role for the request: its
\* three skills are required and the resume's Docker is a strong match.
C20_Witness ==
    /\ Answered
    /\ "job_description" \notin DOMAIN request
    /\ retriever_calls = 1
    /\ Len(result) = 1
    /\ result[1].title = "DevOps Engineer"
    /\ required_skills = <<"Docker", "Kubernetes", "AWS">>
    /\ resume_skills = <<"Docker">>
    /\ gap_results.strong_matches = <<"docker">>
    /\ response.target_role_data.description_used
           = "DevOps Engineer Infra as code. Docker Kubernetes AWS..."


Finished == called = "analyze_resume"
Invoking == called = "llm.invoke"

\* C21: a request whose body holds resume_data (with a sections mapping, raw_text
\* optional) and target_role is answered 200 with the parts ats_analysis,
\* skill_gap, recommendations, llm_insights and target_role_data, with and without
\* a job description, with and without an indexed role, and with the LLM
\* unavailable (llm_insights is then the fallback payload); a body lacking
\* resume_data or target_role is answered 400 and no analysis step runs.
C21_AnalyzeResponses ==
    Finished =>
        IF "resume_data" \notin DOMAIN request \/ "target_role" \notin DOMAIN request
        THEN /\ response = [status |-> 400]
             /\ retriever_calls = 0
             /\ similarity_calls = 0
             /\ ats_results = <<>>
             /\ gap_results = <<>>
             /\ rec_results = <<>>
             /\ llm_results = <<>>
             /\ llm_reply = NoReply
        ELSE /\ response.status = 200
             /\ DOMAIN response = {"status", "ats_analysis", "skill_gap", "recommendations",
                                   "llm_insights", "target_role_data"}
             /\ response.ats_analysis = ats_results
             /\ ats_results = calculate_score(request["resume_data"], job_description,
                                              nltk_available, hash_order)
             /\ response.skill_gap = gap_results
             /\ "match_percentage" \in DOMAIN gap_results
             /\ response.recommendations = rec_results
             /\ rec_results.recommended_projects # <<>>
             /\ response.llm_insights = llm_results
             /\ (llm = "None" \/ llm_reply = InvokeRaised) =>
                    llm_results = _mock_analysis(request["target_role"])
             /\ response.target_role_data.role = request["target_role"]

\* No job description, no role indexed, no LLM and a resume without raw_text: the
\* four fallback skills are required and the insights are the fallback payload.
C21_Witness ==
    /\ Finished
    /\ DOMAIN request = {"resume_data", "target_role"}
    /\ "raw_text" \notin DOMAIN request["resume_data"]
    /\ roles_metadata = <<>>
    /\ llm = "None"
    /\ response.status = 200
    /\ required_skills = FallbackSkills
    /\ response.skill_gap.strong_matches = <<>>
    /\ response.llm_insights.ats_score.score = 75
    /\ response.target_role_data.description_used = "Generic"

\* The results of the core for the request, as the handler computes them.
CoreComputed ==
    /\ resume_data = request["resume_data"]
    /\ ats_results = calculate_score(resume_data, job_description, nltk_available, hash_order)
    /\ resume_skills = ResumeSkillsList(resume_data)
    /\ AnalyzeOutcome(gap_results, resume_skills, required_skills)
    /\ rec_results = generate_recommendations(gap_results.missing_skills,
                                              request["target_role"])

\* C23: the score, the skill-gap result and the recommendations are computed
\* before the insight generator is invoked; while the handler waits for the
\* generator nothing of the core remains to be done; and whatever the generator
\* does (a reply, an exception, or nothing for a long time) leaves the three
\* results as they were, and they are what the response carries.
C23_CoreNotBlocked ==
    /\ [](Invoking => (CoreComputed /\ llm_results = <<>> /\ response = <<>>))
    /\ [][Invoking =>
            /\ ats_results' = ats_results
            /\ gap_results' = gap_results
            /\ rec_results' = rec_results
            /\ response'.status = 200
            /\ response'.ats_analysis = ats_results
            /\ response'.skill_gap = gap_results
            /\ response'.recommendations = rec_results]_vars
    /\ []((Finished /\ response.status = 200) =>
            /\ CoreComputed
            /\ response.ats_analysis = ats_results
            /\ response.skill_gap = gap_results
            /\ response.recommendations = rec_results)

\* The LLM call raised: the response carries the core's results, with Docker a
\* strong match, and the fallback insights.
C23_Witness ==
    /\ Finished
    /\ llm = "ChatOpenAI"
    /\ llm_reply = InvokeRaised
    /\ response.status = 200
    /\ resume_skills = <<"Docker">>
    /\ response.skill_gap = gap_results
    /\ gap_results.strong_matches = <<"docker">>
    /\ response.recommendations = rec_results
    /\ response.llm_insights.ats_score.score = 75

-----------------------------------------------------------------------------
(* main.py: the /api/upload handler *)

\* The bytes of a file: whether pdfplumber can open them, and the text of their
\* pages as pdfplumber extracts it, each page followed by a line break.
ResumeA ==
    [id |-> "A", pdf |-> TRUE,
     pages |-> <<"SKILLS", NL, NL, "Python", ",", SP, "Docker", NL>>]
ResumeB ==
    [id |-> "B", pdf |-> TRUE, pages |-> <<"EDUCATION", NL, "BSc", SP, "Physics", NL>>]
NotPdf == [id |-> "garbage", pdf |-> FALSE, pages |-> <<>>]
\* A file that open(dst, "wb") has created or truncated and nothing has written.
EmptyFile == [id |-> "empty", pdf |-> FALSE, pages |-> <<>>]

\* request.files: no file part, or a file part with its filename and its bytes.
Uploads ==
    { None,
      Some([filename |-> "", content |-> ResumeA]),
      Some([filename |-> "notes.txt", content |-> ResumeA]),
      Some([filename |-> "resume.pdf", content |-> ResumeA]),
      Some([filename |-> "../resume.pdf", content |-> ResumeB]),
      Some([filename |-> "resume.pdf", content |-> NotPdf]),
      Some([filename |-> "cv.PDF", content |-> ResumeB]),
      Some([filename |-> "cv.PDF", content |-> NotPdf]),
      Some([filename |-> "my resume.pdf", content |-> ResumeA]),
      Some([filename |-> "my resume.pdf", content |-> NotPdf]) }

\* filename.rsplit('.', 1)[1], for the filenames of Uploads that hold a dot
Extension(filename) ==
    CASE filename = "notes.txt" -> Some("txt")
      [] filename = "resume.pdf" -> Some("pdf")
      [] filename = "../resume.pdf" -> Some("pdf")
      [] filename = "cv.PDF" -> Some("PDF")
      [] filename = "my resume.pdf" -> Some("pdf")
      [] OTHER -> None

ALLOWED_EXTENSIONS == {"pdf"}

\* lines 36-37
allowed_file(filename) ==
    /\ Extension(filename) # None
    /\ Lower(Extension(filename)[1]) \in ALLOWED_EXTENSIONS

\* line 55, werkzeug's secure_filename: white space and path separators become
\* "_" and leading dots and underscores are stripped, so a filename loses its
\* directories.
secure_filename(filename) ==
    CASE filename = "../resume.pdf" -> "resume.pdf"
      [] filename = "my resume.pdf" -> "my_resume.pdf"
      [] OTHER -> filename

\* line 56: os.path.join(UPLOAD_FOLDER, filename)
FilePath(filename) == <<"UPLOAD_FOLDER", filename>>

\* The folder after a write of the content to the file of that name.
Written(folder, name, content) ==
    [n \in DOMAIN folder \cup {name} |-> IF n = name THEN content ELSE folder[n]]

\* The folder after os.remove of the file.
Removed(folder, name) == [n \in DOMAIN folder \ {name} |-> folder[n]]

\* resume_parser.py:65-74, clean_text on texts without non-ASCII characters: a
\* line break, white space and a line break become one line break, then strip.
RECURSIVE CollapseBlankLines(_)
CollapseBlankLines(items) ==
    IF items = <<>> THEN <<>>
    ELSE IF items[1] # NL THEN <<items[1]>> \o CollapseBlankLines(Tail(items))
    ELSE LET ends == {j \in 2..Len(items) :
                          items[j] = NL /\ \A k \in 2..j : IsSpace(items[k])}
         IN  IF ends = {} THEN <<NL>> \o CollapseBlankLines(Tail(items))
             ELSE LET last == CHOOSE j \in ends : \A k \in ends : k <= j
                  IN  <<NL>> \o CollapseBlankLines(SubSeq(items, last + 1, Len(items)))

clean_text(items) == Strip(CollapseBlankLines(items))

\* resume_parser.py:47-63: the text of the file at the path, None when
\* pdfplumber.open raises (no such file, or not a PDF) and the exception is
\* raised again.
extract_text_from_pdf(folder, name) ==
    IF name \notin DOMAIN folder THEN None
    ELSE IF ~folder[name].pdf THEN None
    ELSE Some(folder[name].pages)

\* resume_parser.py:154-175
parse(raw_text, name) ==
    [metadata |-> [file_path |-> FilePath(name), parsed_date |-> "2025-12-24"],
     contact_info |-> ExtractContactInfo(clean_text(raw_text)),
     sections |-> SegmentSections(clean_text(raw_text)),
     raw_text |-> raw_text]

\* What a thread holds of its request.
NoRequest == [file |-> None, filename |-> "", resume_data |-> <<>>, response |-> <<>>]

\* lines 45-57, up to the open of file.save: the checks of the request, the
\* sanitized filename, and the file created or truncated at file_path.
upload_resume(t, files) ==
    /\ pc[t] \in {"idle", "done"}
    /\ IF files = None \/ files[1].filename = "" \/ ~allowed_file(files[1].filename)
       THEN /\ pc' = [pc EXCEPT ![t] = "done"]
            /\ local' = [local EXCEPT ![t] =
                   [file |-> files, filename |-> "", resume_data |-> <<>>,
                    response |-> [status |-> 400]]]
            /\ UNCHANGED temp_folder
       ELSE /\ pc' = [pc EXCEPT ![t] = "file.save"]
            /\ local' = [local EXCEPT ![t] =
                   [file |-> files, filename |-> secure_filename(files[1].filename),
                    resume_data |-> <<>>, response |-> <<>>]]
            /\ temp_folder' = Written(temp_folder, secure_filename(files[1].filename),
                                      EmptyFile)
    /\ UNCHANGED <<storeVars, seqVars, parserVars, scorerVars, gapVars, flowVars, adviceVars>>

\* line 57, file.save writes the bytes through its open file.  When the file
\* was removed in the meantime the bytes go to a file no path leads to.
FileSave(t) ==
    /\ pc[t] = "file.save"
    /\ pc' = [pc EXCEPT ![t] = "parser.parse"]
    /\ temp_folder' = IF local[t].filename \in DOMAIN temp_folder
                      THEN Written(temp_folder, local[t].filename, local[t].file[1].content)
                      ELSE temp_folder
    /\ UNCHANGED <<storeVars, seqVars, local, parserVars, scorerVars, gapVars, flowVars,
                   adviceVars>>

\* line 60, and lines 69-71 when it raises
ParserParse(t) ==
    /\ pc[t] = "parser.parse"
    /\ LET raw_text == extract_text_from_pdf(temp_folder, local[t].filename)
       IN  IF raw_text = None
           THEN /\ pc' = [pc EXCEPT ![t] = "done"]
                /\ local' = [local EXCEPT ![t].response = [status |-> 500]]
           ELSE /\ pc' = [pc EXCEPT ![t] = "os.remove"]
                /\ local' = [local EXCEPT ![t].resume_data =
                                 parse(raw_text[1], local[t].filename)]
    /\ UNCHANGED <<storeVars, seqVars, parserVars, scorerVars, gapVars, flowVars,
                   adviceVars, uploadVars>>

\* lines 63-68, and lines 69-71 when os.remove raises FileNotFoundError
OsRemove(t) ==
    /\ pc[t] = "os.remove"
    /\ pc' = [pc EXCEPT ![t] = "done"]
    /\ IF local[t].filename \in DOMAIN temp_folder
       THEN /\ temp_folder' = Removed(temp_folder, local[t].filename)
            /\ local' = [local EXCEPT ![t].response =
                   [status |-> 200, message |-> "Resume parsed successfully",
                    data |-> local[t].resume_data]]
       ELSE /\ UNCHANGED temp_folder
            /\ local' = [local EXCEPT ![t].response = [status |-> 500]]
    /\ UNCHANGED <<storeVars, seqVars, parserVars, scorerVars, gapVars, flowVars, adviceVars>>

\* One thread serving upload requests one after the other.
InitUpload ==
    /\ VECTOR_SEARCH_AVAILABLE = FALSE
    /\ model = "unset"
    /\ index = NoIndex
    /\ roles_metadata = <<>>
    /\ fsIndex = Absent
    /\ fsMeta = Absent
    /\ alive = TRUE
    /\ boot = "first"
    /\ lastOp = "construct"
    /\ fault = "none"
    /\ outcome = "returned"
    /\ result = <<>>
    /\ pc = [t \in {1} |-> "idle"]
    /\ local = [t \in {1} |-> NoRequest]
    /\ ParserOff
    /\ ScorerOff
    /\ GapOff
    /\ FlowOff
    /\ AdviceOff
    /\ temp_folder = <<>>

\* The threads of the server, each serving upload requests.
InitUploadConc ==
    /\ VECTOR_SEARCH_AVAILABLE = FALSE
    /\ model = "unset"
    /\ index = NoIndex
    /\ roles_metadata = <<>>
    /\ fsIndex = Absent
    /\ fsMeta = Absent
    /\ alive = TRUE
    /\ boot = "first"
    /\ lastOp = "construct"
    /\ fault = "none"
    /\ outcome = "returned"
    /\ result = <<>>
    /\ pc = [t \in Threads |-> "idle"]
    /\ local = [t \in Threads |-> NoRequest]
    /\ ParserOff
    /\ ScorerOff
    /\ GapOff
    /\ FlowOff
    /\ AdviceOff
    /\ temp_folder = <<>>

NextUpload ==
    \E t \in {1} :
        \/ \E files \in Uploads : upload_resume(t, files)
        \/ FileSave(t)
        \/ ParserParse(t)
        \/ OsRemove(t)

NextUploadConc ==
    \E t \in Threads :
        \/ \E files \in Uploads : upload_resume(t, files)
        \/ FileSave(t)
        \/ ParserParse(t)
        \/ OsRemove(t)

SpecUpload == InitUpload /\ [][NextUpload]_vars

SpecUploadConc == InitUploadConc /\ [][NextUploadConc]_vars

-----------------------------------------------------------------------------
(* Claims about the /api/upload handler *)

\* The request of the thread saved its file: it passed the checks of lines 45-53.
Saved(t) == local[t].file # None /\ local[t].filename # ""

\* C29: a request that saved its file into the temp folder has deleted it when it
\* responds, with 200 and with 500 alike; between requests no uploaded file is in
\* the temp folder.
C29_NoFileLeftBehind ==
    (\A t \in DOMAIN pc : pc[t] \in {"idle", "done"}) => DOMAIN temp_folder = {}

\* C30: concurrent uploads do not interfere, also under one sanitized filename:
\* every request that uploaded a PDF is answered 200 with the parse of its own
\* bytes.
C30_NoInterference ==
    \A t \in DOMAIN pc :
        (pc[t] = "done" /\ Saved(t) /\ local[t].file[1].content.pdf) =>
            /\ local[t].response.status = 200
            /\ local[t].response.data.raw_text = local[t].file[1].content.pages

====
